---- MODULE Spec2Model ----
(***************************************************************************)
(* A model of the depot Docker Registry V2 service: the registry handlers  *)
(* (internal/docker/handlers.go), the file-backed Blob Store               *)
(* (internal/storage/storage.go) and the Registry Manager                  *)
(* (internal/docker/manager.go).                                           *)
(*                                                                         *)
(* A string is a sequence of tokens ("sha256:" is one token, so is a tag   *)
(* such as "v1.0"), a byte slice is a sequence of one-token bytes.  sha256 *)
(* is modelled as a collision-free map from byte slices to numbers, and    *)
(* "%x" as fixed-width hexadecimal formatting of that number.              *)
(***************************************************************************)
EXTENDS Integers, Sequences, FiniteSets, TLC

VARIABLES
    manifests,   \* Registry.manifests: repo -> (reference -> *Manifest)
    uploads,     \* Registry.uploads: the keys (upload ids) of the session table
    heap,        \* the Upload objects the table (and handlers in flight) point to
    nextUUID,    \* the next value uuid.New() returns
    files,       \* FileStorage: <<repo, path>> -> content
    req,         \* the request each client has in flight (its handler's position)
    acked,       \* history: per open upload, the acknowledged PATCH bodies in order
    rejected,    \* history: open uploads that had a PUT answered DIGEST_INVALID
    closed,      \* history: upload ids committed by a 201 PUT or aborted by DELETE
    tagPut,      \* history: per <<repo, tag>>, the last PUT or DELETE of that tag
    registries,  \* Manager.registries: name -> registry instance
    inst,        \* the Registry objects in memory, by identity
    tlsConfig,   \* Manager.tlsConfig: whether the manager was given a TLS config
    lastStart,   \* history: the StartRegistry call just refused for a port conflict
    storing,     \* the FileStorage.Store call in progress, if any
    db,          \* the descriptor bucket: name -> persisted repository descriptor
    bootRegistries, \* registries of the Manager that Server.Start creates
    dockerManager,  \* Server.dockerManager: which Manager the server points to
    mainRouter,  \* the repositories mounted under /v2/ on the server's router
    phase,       \* where the server process is in its life
    lastApi,     \* history: the Control API call just answered
    mu,          \* Registry.mu: the client that holds the lock for writing, if any
    local,       \* per client, the local variables of its handler in flight
    log          \* history: per upload id, the responses its requests were given

registryVars == <<manifests, uploads, heap, nextUUID, files, req, acked, rejected,
                  closed, tagPut>>
managerVars  == <<registries, inst, tlsConfig, lastStart>>

storeVars    == <<storing>>
serverVars   == <<db, bootRegistries, dockerManager, mainRouter, phase, lastApi>>

lockVars     == <<mu, local, log>>

vars == <<registryVars, managerVars, storeVars, serverVars, lockVars>>

----------------------------------------------------------------------------
(* Bounds of the model.                                                    *)

MaxUploads == 2      \* upload sessions ever created
MaxData    == 2      \* bytes an upload buffer may accumulate
MaxChunk   == 1      \* bytes in one request body of a blob upload
HexLen     == 4      \* hexadecimal digits kept of a digest
MaxInst    == 2      \* Registry objects in memory at a time

Repos     == {"r1", "r2"}
RepoNames == {"repo1", "repo2"}
Ports     == {0, 5000}
BlobBytes == {"a", "b"}
Clients   == {"c1", "c2"}
UUIDs     == 1..MaxUploads

----------------------------------------------------------------------------
(* Strings, byte slices and digests.                                       *)

EmptyStr == <<>>

HasPrefix(s, tok) == Len(s) >= 1 /\ s[1] = tok

\* The tokens a byte slice may hold, in a fixed order.
Alphabet == <<"a", "b", "{", "}", "mediaType:oci">>

Ord(tok) == CHOOSE i \in 1..Len(Alphabet) : Alphabet[i] = tok

RECURSIVE Sha256(_)
Sha256(data) ==
    IF data = <<>> THEN 0
    ELSE Sha256(SubSeq(data, 1, Len(data) - 1)) * (Len(Alphabet) + 1)
             + Ord(data[Len(data)])

HexDigits == <<"0", "1", "2", "3", "4", "5", "6", "7",
               "8", "9", "a", "b", "c", "d", "e", "f">>

RECURSIVE Pow16(_)
Pow16(k) == IF k = 0 THEN 1 ELSE 16 * Pow16(k - 1)

Hex(n) == [i \in 1..HexLen |-> HexDigits[((n \div Pow16(HexLen - i)) % 16) + 1]]

\* fmt.Sprintf("sha256:%x", sha256.Sum256(data))
Digest(data) == <<"sha256:">> \o Hex(Sha256(data))

\* path.Join(dir, name)
PathJoin(dir, name) == IF name = <<>> THEN <<dir>> ELSE <<dir, "/">> \o name

RECURSIVE SeqsUpTo(_, _)
SeqsUpTo(S, n) ==
    IF n = 0 THEN {<<>>}
    ELSE LET shorter == SeqsUpTo(S, n - 1)
         IN shorter \cup {Append(s, x) : s \in {t \in shorter : Len(t) = n - 1}, x \in S}

----------------------------------------------------------------------------
(* FileStorage (internal/storage/storage.go).                              *)

StoreOutcomes  == {"ok", "create_err", "write_err"}
DeleteOutcomes == {"ok", "remove_err"}

EmptyMap == [x \in {} |-> <<>>]

Without(f, k) == [x \in (DOMAIN f) \ {k} |-> f[x]]
With(f, k, v) == [x \in (DOMAIN f) \cup {k} |-> IF x = k THEN v ELSE f[x]]

\* Store: MkdirAll and os.Create may fail before anything is written; a
\* failed io.Copy removes the (truncated) file.
Store(fl, repo, path, content, outcome) ==
    CASE outcome = "ok"         -> [err |-> FALSE, files |-> With(fl, <<repo, path>>, content)]
      [] outcome = "create_err" -> [err |-> TRUE,  files |-> fl]
      [] outcome = "write_err"  -> [err |-> TRUE,  files |-> Without(fl, <<repo, path>>)]

\* Delete: a file that does not exist is not an error.
Delete(fl, repo, path, outcome) ==
    IF <<repo, path>> \notin DOMAIN fl THEN [err |-> FALSE, files |-> fl]
    ELSE IF outcome = "ok" THEN [err |-> FALSE, files |-> Without(fl, <<repo, path>>)]
    ELSE [err |-> TRUE, files |-> fl]

Exists(fl, repo, path) == <<repo, path>> \in DOMAIN fl

Retrieve(fl, repo, path) ==
    IF <<repo, path>> \in DOMAIN fl
    THEN [err |-> FALSE, content |-> fl[<<repo, path>>]]
    ELSE [err |-> TRUE, content |-> <<>>]

----------------------------------------------------------------------------
(* Requests and responses.                                                 *)

\* A request: the route variables, query, headers and body a handler reads,
\* and the outcome of the I/O it performs.
BaseReq ==
    [op |-> "idle", pc |-> "idle", name |-> "", ref |-> EmptyStr, uuid |-> 0,
     digest |-> EmptyStr, body |-> <<>>, chunked |-> FALSE, readErr |-> FALSE,
     ctype |-> "", method |-> "", io |-> "ok"]

\* req.ContentLength: the declared length, or -1 when the body is sent with
\* chunked transfer encoding.
ContentLength(q) == IF q.chunked THEN -1 ELSE Len(q.body)

\* A response: status, V2 error code, body, and the headers Content-Type,
\* Docker-Content-Digest, Docker-Upload-UUID and Range ("bytes=0-n" as <<n>>).
BaseResp ==
    [status |-> 0, code |-> "", body |-> <<>>, ctype |-> "", digest |-> EmptyStr,
     uuid |-> <<>>, range |-> <<>>, tags |-> {}, repositories |-> {}]

\* writeError
writeError(status, code) == [BaseResp EXCEPT !.status = status, !.code = code]

Status(status) == [BaseResp EXCEPT !.status = status]

----------------------------------------------------------------------------
(* The state of one Registry together with the Blob Store it writes to.    *)

Cur == [manifests |-> manifests, uploads |-> uploads, heap |-> heap,
        nextUUID |-> nextUUID, files |-> files]

\* The result of a handler: its response and the state it leaves.
Result(resp, S) == [resp |-> resp, st |-> S]

BlobPath(digest) == PathJoin("blobs", digest)
ManifestPath(reference) == PathJoin("manifests", reference)

----------------------------------------------------------------------------
(* Blob upload handlers (internal/docker/handlers.go).                     *)

\* POST /v2/{name}/blobs/uploads/
handleBlobUploadPost(S, q) ==
    LET u == S.nextUUID
        upload == [UUID |-> u, RepoName |-> q.name, Size |-> 0, Data |-> <<>>]
    IN Result([Status(202) EXCEPT !.uuid = <<u>>, !.range = <<0>>],
              [S EXCEPT !.uploads = @ \cup {u},
                        !.heap = With(@, u, upload),
                        !.nextUUID = u + 1])

\* PATCH, first critical section: look the session up.
PatchLookup(S, q) == q.uuid \in S.uploads

\* PATCH, second critical section: append the chunk to the Upload object.
PatchAppend(S, q) ==
    [S EXCEPT !.heap[q.uuid].Data = @ \o q.body,
              !.heap[q.uuid].Size = Len(S.heap[q.uuid].Data \o q.body)]

\* PATCH, the response written after the lock is released.
PatchRespond(S, q) ==
    [Status(202) EXCEPT !.uuid = <<q.uuid>>, !.range = <<S.heap[q.uuid].Size - 1>>]

\* PATCH /v2/{name}/blobs/uploads/{uuid}
handleBlobUploadPatch(S, q) ==
    IF ~PatchLookup(S, q) THEN Result(writeError(404, "BLOB_UPLOAD_UNKNOWN"), S)
    ELSE IF q.readErr THEN Result(writeError(400, "BLOB_UPLOAD_INVALID"), S)
    ELSE LET T == PatchAppend(S, q) IN Result(PatchRespond(T, q), T)

\* PUT, the critical section: look up, append the remaining data, check the
\* digest, remove the session.  next = "store" when the handler goes on.
PutLocked(S, q) ==
    IF q.uuid \notin S.uploads
    THEN [next |-> "done", resp |-> writeError(404, "BLOB_UPLOAD_UNKNOWN"), st |-> S]
    ELSE IF ContentLength(q) > 0 /\ q.readErr
    THEN [next |-> "done", resp |-> writeError(400, "BLOB_UPLOAD_INVALID"), st |-> S]
    ELSE LET T == IF ContentLength(q) > 0
                  THEN [S EXCEPT !.heap[q.uuid].Data = @ \o q.body]
                  ELSE S
         IN IF Digest(T.heap[q.uuid].Data) # q.digest
            THEN [next |-> "done", resp |-> writeError(400, "DIGEST_INVALID"), st |-> T]
            ELSE [next |-> "store", resp |-> BaseResp,
                  st |-> [T EXCEPT !.uploads = @ \ {q.uuid}]]

\* A store step that, when the store fails, leaves the file it had begun
\* to write, holding all but the last byte.
PutStoreLeavesPartial(S, q) ==
    LET data == S.heap[q.uuid].Data
        r == Store(S.files, q.name, BlobPath(q.digest), data, q.io)
    IN IF r.err
       THEN Result(writeError(500, "BLOB_UPLOAD_INVALID"),
                   [S EXCEPT !.files = With(S.files, <<q.name, BlobPath(q.digest)>>,
                                            SubSeq(data, 1, Len(data) - 1))])
       ELSE Result([Status(201) EXCEPT !.digest = q.digest],
                   [S EXCEPT !.files = r.files])

\* PUT, after the lock is released: store upload.Data under blobs/<digest>.
PutStore(S, q) ==
    LET r == Store(S.files, q.name, BlobPath(q.digest), S.heap[q.uuid].Data, q.io)
    IN Result(IF r.err THEN writeError(500, "BLOB_UPLOAD_INVALID")
              ELSE [Status(201) EXCEPT !.digest = q.digest],
              [S EXCEPT !.files = r.files])

\* PUT /v2/{name}/blobs/uploads/{uuid}?digest=
handleBlobUploadPut(S, q) ==
    IF q.digest = EmptyStr THEN Result(writeError(400, "DIGEST_INVALID"), S)
    ELSE LET l == PutLocked(S, q)
         IN IF l.next = "done" THEN Result(l.resp, l.st) ELSE PutStore(l.st, q)

\* A status GET that, having answered, drops the session from the table.
StatusAndRelease(S, q) ==
    IF q.uuid \notin S.uploads THEN Result(writeError(404, "BLOB_UPLOAD_UNKNOWN"), S)
    ELSE Result([Status(204) EXCEPT !.uuid = <<q.uuid>>,
                                    !.range = <<S.heap[q.uuid].Size - 1>>],
                [S EXCEPT !.uploads = @ \ {q.uuid}])

\* GET /v2/{name}/blobs/uploads/{uuid}
handleBlobUploadGet(S, q) ==
    IF q.uuid \notin S.uploads THEN Result(writeError(404, "BLOB_UPLOAD_UNKNOWN"), S)
    ELSE Result([Status(204) EXCEPT !.uuid = <<q.uuid>>,
                                    !.range = <<S.heap[q.uuid].Size - 1>>], S)

\* A DELETE that answers 204 and leaves the session in the table.
AckWithoutAbort(S, q) == Result(Status(204), S)

\* DELETE /v2/{name}/blobs/uploads/{uuid}
handleBlobUploadDelete(S, q) ==
    Result(Status(204), [S EXCEPT !.uploads = @ \ {q.uuid}])

----------------------------------------------------------------------------
(* Blob handlers.                                                          *)

\* A blob lookup that searches every repository's directory.
BlobGetAnyRepo(S, q) ==
    IF \E k \in DOMAIN S.files : k[2] = BlobPath(q.digest)
    THEN Result([Status(200) EXCEPT !.digest = q.digest,
                                    !.ctype = "application/octet-stream"], S)
    ELSE Result(writeError(404, "BLOB_UNKNOWN"), S)

\* GET/HEAD /v2/{name}/blobs/{digest}; q.io = "err" is a failing os.Stat or
\* os.Open.
handleBlobGet(S, q) ==
    IF q.io # "ok" \/ ~Exists(S.files, q.name, BlobPath(q.digest))
    THEN Result(writeError(404, "BLOB_UNKNOWN"), S)
    ELSE IF q.method = "HEAD"
    THEN Result([Status(200) EXCEPT !.digest = q.digest,
                                    !.ctype = "application/octet-stream"], S)
    ELSE LET r == Retrieve(S.files, q.name, BlobPath(q.digest))
         IN IF r.err THEN Result(writeError(404, "BLOB_UNKNOWN"), S)
            ELSE Result([Status(200) EXCEPT !.digest = q.digest,
                                            !.ctype = "application/octet-stream",
                                            !.body = r.content], S)

\* DELETE /v2/{name}/blobs/{digest}
handleBlobDelete(S, q) ==
    LET r == Delete(S.files, q.name, BlobPath(q.digest), q.io)
    IN IF r.err THEN Result(writeError(404, "BLOB_UNKNOWN"), S)
       ELSE Result(Status(202), [S EXCEPT !.files = r.files])

----------------------------------------------------------------------------
(* Manifest handlers.                                                      *)

MediaTypeDockerSchema2Manifest == "application/vnd.docker.distribution.manifest.v2+json"
MediaTypeOCIManifest == "application/vnd.oci.image.manifest.v1+json"

\* json.Unmarshal(body, &manifest): the JSON documents of the model are the
\* objects {} and {"mediaType": <OCI manifest>}; anything else fails to parse.
Unmarshal(body) ==
    IF body = <<"{", "}">> THEN [err |-> FALSE, MediaType |-> ""]
    ELSE IF body = <<"{", "mediaType:oci", "}">>
    THEN [err |-> FALSE, MediaType |-> MediaTypeOCIManifest]
    ELSE [err |-> TRUE, MediaType |-> ""]

\* A PUT that lets the JSON mediaType field take precedence over the header.
JSONMediaTypeWins(q, parsed) ==
    IF parsed.MediaType = "" THEN q.ctype ELSE parsed.MediaType

\* The media type stored with the manifest: the Content-Type header, or the
\* JSON mediaType field when the header is empty.
StoredMediaType(q, parsed) == IF q.ctype = "" THEN parsed.MediaType ELSE q.ctype

\* An insert that binds the manifest under the reference of the URL only.
ManifestPutByReference(S, q, manifest, digest) ==
    LET repoManifests == IF q.name \in DOMAIN S.manifests
                         THEN S.manifests[q.name] ELSE EmptyMap
    IN [S EXCEPT !.manifests = With(@, q.name, With(repoManifests, q.ref, manifest))]

\* An insert that, when it rebinds a reference, drops every binding of the
\* record the reference named before.
ManifestPutReplace(S, q, manifest, digest) ==
    LET repoManifests == IF q.name \in DOMAIN S.manifests
                         THEN S.manifests[q.name] ELSE EmptyMap
        kept  == [x \in {y \in DOMAIN repoManifests :
                             \/ q.ref \notin DOMAIN repoManifests
                             \/ repoManifests[y] # repoManifests[q.ref]}
                     |-> repoManifests[x]]
        byRef == With(kept, q.ref, manifest)
        both  == IF ~HasPrefix(q.ref, "sha256:") THEN With(byRef, digest, manifest)
                 ELSE byRef
    IN [S EXCEPT !.manifests = With(@, q.name, both)]

\* PUT manifest, the critical section: insert into the index by reference
\* and, when the reference is a tag, by digest too.
ManifestPutLocked(S, q, manifest, digest) ==
    LET repoManifests == IF q.name \in DOMAIN S.manifests
                         THEN S.manifests[q.name] ELSE EmptyMap
        byRef == With(repoManifests, q.ref, manifest)
        both  == IF ~HasPrefix(q.ref, "sha256:") THEN With(byRef, digest, manifest)
                 ELSE byRef
    IN [S EXCEPT !.manifests = With(@, q.name, both)]

\* A store step that takes the bindings of the PUT back out of the index when
\* the store fails.
ManifestPutStoreUndo(S, q, digest) ==
    LET r == Store(S.files, q.name, ManifestPath(digest), q.body, q.io)
    IN IF r.err
       THEN Result(writeError(500, "MANIFEST_BLOB_UNKNOWN"),
                   [S EXCEPT !.manifests[q.name] =
                                 [x \in (DOMAIN @) \ {q.ref, digest} |-> @[x]],
                             !.files = r.files])
       ELSE Result([Status(201) EXCEPT !.digest = digest],
                   [S EXCEPT !.files = r.files])

\* PUT manifest, after the lock is released: mirror the body into the store.
ManifestPutStore(S, q, digest) ==
    LET r == Store(S.files, q.name, ManifestPath(digest), q.body, q.io)
    IN Result(IF r.err THEN writeError(500, "MANIFEST_BLOB_UNKNOWN")
              ELSE [Status(201) EXCEPT !.digest = digest],
              [S EXCEPT !.files = r.files])

\* PUT /v2/{name}/manifests/{reference}
handleManifestPut(S, q) ==
    IF q.readErr THEN Result(writeError(400, "MANIFEST_INVALID"), S)
    ELSE LET parsed == Unmarshal(q.body)
         IN IF parsed.err THEN Result(writeError(400, "MANIFEST_INVALID"), S)
            ELSE LET manifest == [MediaType |-> StoredMediaType(q, parsed),
                                  Raw |-> q.body]
                     digest == Digest(q.body)
                 IN ManifestPutStore(ManifestPutLocked(S, q, manifest, digest),
                                     q, digest)

\* GET/HEAD /v2/{name}/manifests/{reference}
handleManifestGet(S, q) ==
    IF q.name \notin DOMAIN S.manifests
    THEN Result(writeError(404, "MANIFEST_UNKNOWN"), S)
    ELSE IF q.ref \notin DOMAIN S.manifests[q.name]
    THEN Result(writeError(404, "MANIFEST_UNKNOWN"), S)
    ELSE LET manifest == S.manifests[q.name][q.ref]
             hdr == [Status(200) EXCEPT !.ctype = manifest.MediaType,
                                        !.digest = Digest(manifest.Raw)]
         IN IF q.method = "HEAD" THEN Result(hdr, S)
            ELSE Result([hdr EXCEPT !.body = manifest.Raw], S)

\* A DELETE that removes every binding of the record the reference names.
ManifestDeleteRecord(S, q) ==
    IF q.name \notin DOMAIN S.manifests
    THEN Result(writeError(404, "MANIFEST_UNKNOWN"), S)
    ELSE IF q.ref \notin DOMAIN S.manifests[q.name]
    THEN Result(writeError(404, "MANIFEST_UNKNOWN"), S)
    ELSE LET repoManifests == S.manifests[q.name]
             r == Delete(S.files, q.name, ManifestPath(q.ref), q.io)
         IN Result(Status(202),
                   [S EXCEPT !.manifests[q.name] =
                                 [x \in {y \in DOMAIN repoManifests :
                                            repoManifests[y] # repoManifests[q.ref]}
                                     |-> repoManifests[x]],
                             !.files = r.files])

\* DELETE /v2/{name}/manifests/{reference}; the store's error is dropped.
handleManifestDelete(S, q) ==
    IF q.name \notin DOMAIN S.manifests
    THEN Result(writeError(404, "MANIFEST_UNKNOWN"), S)
    ELSE IF q.ref \notin DOMAIN S.manifests[q.name]
    THEN Result(writeError(404, "MANIFEST_UNKNOWN"), S)
    ELSE LET r == Delete(S.files, q.name, ManifestPath(q.ref), q.io)
         IN Result(Status(202),
                   [S EXCEPT !.manifests[q.name] = Without(@, q.ref),
                             !.files = r.files])

\* A tags list that names every reference of the repository.
ListReferences(S, q) ==
    LET tags == IF q.name \in DOMAIN S.manifests
                THEN DOMAIN S.manifests[q.name] ELSE {}
    IN Result([Status(200) EXCEPT !.tags = tags, !.ctype = "application/json"], S)

\* GET /v2/{name}/tags/list
handleTagsList(S, q) ==
    LET tags == IF q.name \in DOMAIN S.manifests
                THEN {ref \in DOMAIN S.manifests[q.name] : ~HasPrefix(ref, "sha256:")}
                ELSE {}
    IN Result([Status(200) EXCEPT !.tags = tags, !.ctype = "application/json"], S)

\* GET /v2/_catalog
handleCatalog(S, q) ==
    Result([Status(200) EXCEPT !.repositories = DOMAIN S.manifests,
                               !.ctype = "application/json"], S)

----------------------------------------------------------------------------
(* The Registry Manager (internal/docker/manager.go).                      *)

\* models.DockerRepositoryConfig
Configs == [HTTPPort : Ports, HTTPSPort : Ports]

\* The state of a Manager.
Mgr == [registries |-> registries, inst |-> inst, tlsConfig |-> tlsConfig]

\* The identity of the Registry the next allocation returns.
FreshInst(M) ==
    CHOOSE i \in 1..(Cardinality(DOMAIN M.inst) + 1) :
        i \notin DOMAIN M.inst /\ \A j \in 1..(i - 1) : j \in DOMAIN M.inst

\* A conflict check that compares the HTTPS ports only.
HTTPSPortConflict(M, config) ==
    \E name \in DOMAIN M.registries :
        LET reg == M.inst[M.registries[name]]
        IN config.HTTPSPort > 0 /\ config.HTTPSPort = reg.config.HTTPSPort

\* StartRegistry, the loop that checks for port conflicts.
PortConflict(M, config) ==
    \E name \in DOMAIN M.registries :
        LET reg == M.inst[M.registries[name]]
        IN \/ (config.HTTPPort > 0 /\ config.HTTPPort = reg.config.HTTPPort)
           \/ (config.HTTPSPort > 0 /\ config.HTTPSPort = reg.config.HTTPSPort)

\* NewRegistry: server is nil until Start assigns it; tls tells whether the
\* goroutine that runs Start was handed a TLS config.
NewRegistry(repo, config, tls) ==
    [repo |-> repo, config |-> config, tls |-> tls, server |-> "nil"]

\* Registry.Start: the port of the address the server listens on.
Addr(reg) ==
    IF reg.config.HTTPPort > 0 /\ ~reg.tls THEN reg.config.HTTPPort
    ELSE reg.config.HTTPSPort

\* Registry.Start: ListenAndServe[TLS] either binds and serves or returns an
\* error.
Start(reg, outcome) ==
    [reg EXCEPT !.server = IF outcome = "ok" THEN "listening" ELSE "failed"]

\* Registry.Stop: nothing to do before Start has assigned the server;
\* Shutdown closes the listener also when it then runs into the deadline.
Stop(reg, outcome) ==
    IF reg.server = "nil" THEN [err |-> FALSE, reg |-> reg]
    ELSE [err |-> reg.server = "listening" /\ outcome = "deadline",
          reg |-> [reg EXCEPT !.server = "shutdown"]]

\* StartRegistry; early tells whether the goroutine's Start has failed
\* by the time the select statement looks at errCh.
StartRegistry(M, repo, config, early) ==
    IF repo \in DOMAIN M.registries
    THEN [err |-> "registry already running", st |-> M]
    ELSE IF config.HTTPPort = 0 /\ config.HTTPSPort = 0
    THEN [err |-> "either HTTPPort or HTTPSPort must be specified", st |-> M]
    ELSE IF PortConflict(M, config)
    THEN [err |-> "port conflict", st |-> M]
    ELSE LET id == FreshInst(M)
             registry == NewRegistry(repo, config, config.HTTPSPort > 0 /\ M.tlsConfig)
         IN IF early
            THEN [err |-> "failed to start registry",
                  st |-> [M EXCEPT !.inst = With(@, id, Start(registry, "err"))]]
            ELSE [err |-> "",
                  st |-> [M EXCEPT !.inst = With(@, id, registry),
                                   !.registries = With(@, repo, id)]]

\* StopRegistry
StopRegistry(M, repoName, outcome) ==
    IF repoName \notin DOMAIN M.registries
    THEN [err |-> "no registry running", st |-> M]
    ELSE LET id == M.registries[repoName]
             r == Stop(M.inst[id], outcome)
         IN IF r.err
            THEN [err |-> "failed to stop registry",
                  st |-> [M EXCEPT !.inst[id] = r.reg]]
            ELSE [err |-> "",
                  st |-> [M EXCEPT !.inst[id] = r.reg,
                                   !.registries = Without(@, repoName)]]

\* GetRegistry
GetRegistry(M, repoName) ==
    IF repoName \in DOMAIN M.registries
    THEN [registry |-> M.registries[repoName], exists |-> TRUE]
    ELSE [registry |-> 0, exists |-> FALSE]

\* StopAll; outcome[name] is the outcome of stopping that registry.
StopAll(M, outcome) ==
    LET ids == {M.registries[name] : name \in DOMAIN M.registries}
        nameOf(id) == CHOOSE name \in DOMAIN M.registries : M.registries[name] = id
        stopped == [id \in DOMAIN M.inst |->
                       IF id \in ids THEN Stop(M.inst[id], outcome[nameOf(id)])
                       ELSE [err |-> FALSE, reg |-> M.inst[id]]]
    IN [err |-> IF \E id \in ids : stopped[id].err
                THEN "failed to stop some registries" ELSE "",
        st |-> [M EXCEPT !.inst = [id \in DOMAIN M.inst |-> stopped[id].reg],
                         !.registries = EmptyMap]]

\* IsPortInUse
IsPortInUse(M, httpPort, httpsPort) ==
    \E name \in DOMAIN M.registries :
        LET reg == M.inst[M.registries[name]]
        IN \/ (httpPort > 0 /\ httpPort = reg.config.HTTPPort)
           \/ (httpsPort > 0 /\ httpsPort = reg.config.HTTPSPort)

----------------------------------------------------------------------------
(* The requests clients send.                                              *)

Chunks   == SeqsUpTo(BlobBytes, MaxChunk)
DataSeqs == SeqsUpTo(BlobBytes, MaxData)

\* Digest strings a client may name: well-formed ones and a malformed one.
DigestInputs == {Digest(d) : d \in DataSeqs} \cup {<<"invalid">>}

PostRequests == {[BaseReq EXCEPT !.op = "BlobUploadPost", !.name = n] : n \in Repos}

PatchRequests ==
    {[BaseReq EXCEPT !.op = "BlobUploadPatch", !.name = n, !.uuid = u, !.body = b,
                     !.readErr = e] :
        n \in Repos, u \in UUIDs, b \in Chunks, e \in BOOLEAN}

\* How a PUT carries its body <<chunked, readErr>>: with a declared length,
\* chunked, or cut off before the server has read it.
PutBodies ==
    {<<b, k>> \in Chunks \X {<<FALSE, FALSE>>, <<TRUE, FALSE>>, <<FALSE, TRUE>>} :
        b = <<>> => k = <<FALSE, FALSE>>}

PutRequests ==
    {[BaseReq EXCEPT !.op = "BlobUploadPut", !.name = n, !.uuid = u, !.body = bk[1],
                     !.chunked = bk[2][1], !.readErr = bk[2][2], !.digest = d] :
        n \in Repos, u \in UUIDs, bk \in PutBodies, d \in DigestInputs \cup {EmptyStr}}

UploadGetRequests ==
    {[BaseReq EXCEPT !.op = "BlobUploadGet", !.name = n, !.uuid = u] :
        n \in Repos, u \in UUIDs}

UploadDeleteRequests ==
    {[BaseReq EXCEPT !.op = "BlobUploadDelete", !.name = n, !.uuid = u] :
        n \in Repos, u \in UUIDs}

BlobGetRequests ==
    {[BaseReq EXCEPT !.op = "BlobGet", !.name = n, !.digest = d, !.method = m,
                     !.io = o] :
        n \in Repos, d \in DigestInputs, m \in {"GET", "HEAD"}, o \in {"ok", "err"}}

BlobDeleteRequests ==
    {[BaseReq EXCEPT !.op = "BlobDelete", !.name = n, !.digest = d, !.io = o] :
        n \in Repos, d \in DigestInputs, o \in DeleteOutcomes}

\* The same request with the outcome o of the store operation it performs.
WithIO(q, o) == [q EXCEPT !.io = o]

\* The buffer an append by q would leave fits the model's bound.
FitsBuffer(S, q) ==
    q.uuid \in DOMAIN S.heap => Len(S.heap[q.uuid].Data) + Len(q.body) <= MaxData

Tags == {<<"v1.0">>}

ManifestBodies == {<<"{", "}">>, <<"{", "mediaType:oci", "}">>, <<"a">>}

ContentTypes == {"", MediaTypeDockerSchema2Manifest}

\* References: the tags, and the digest of every body that parses.
References == Tags \cup {Digest(b) : b \in {x \in ManifestBodies : ~Unmarshal(x).err}}

\* Repository r1 receives every kind of push; r2 only pushes of one manifest
\* by tag.
ManifestPutRequests ==
    {[BaseReq EXCEPT !.op = "ManifestPut", !.name = "r1", !.ref = r, !.body = b,
                     !.ctype = c, !.readErr = e] :
        r \in References, b \in ManifestBodies, c \in ContentTypes, e \in BOOLEAN}
    \cup
    {[BaseReq EXCEPT !.op = "ManifestPut", !.name = "r2", !.ref = r,
                     !.body = <<"{", "mediaType:oci", "}">>,
                     !.ctype = MediaTypeDockerSchema2Manifest] : r \in Tags}

ManifestGetRequests ==
    {[BaseReq EXCEPT !.op = "ManifestGet", !.name = n, !.ref = r, !.method = m] :
        n \in Repos, r \in References, m \in {"GET", "HEAD"}}

ManifestDeleteRequests ==
    {[BaseReq EXCEPT !.op = "ManifestDelete", !.name = n, !.ref = r, !.io = o] :
        n \in Repos, r \in References, o \in DeleteOutcomes}

TagsListRequests == {[BaseReq EXCEPT !.op = "TagsList", !.name = n] : n \in Repos}

CatalogRequests == {[BaseReq EXCEPT !.op = "Catalog"]}

----------------------------------------------------------------------------
(* Initial state: a Registry fresh from NewRegistry over an empty store,   *)
(* and a Manager fresh from NewManager.                                    *)

Idle == BaseReq

NoPut == [kind |-> "none", body |-> <<>>, ctype |-> "", status |-> 0]

InitRegistry ==
    /\ manifests = EmptyMap
    /\ uploads = {}
    /\ heap = EmptyMap
    /\ nextUUID = 1
    /\ files = EmptyMap
    /\ req = [c \in Clients |-> Idle]
    /\ acked = EmptyMap
    /\ rejected = {}
    /\ closed = {}
    /\ tagPut = [k \in Repos \X Tags |-> NoPut]

NoStart == [repo |-> "", config |-> [HTTPPort |-> 0, HTTPSPort |-> 0], err |-> "none"]

InitManager ==
    /\ registries = EmptyMap
    /\ inst = EmptyMap
    /\ tlsConfig \in BOOLEAN
    /\ lastStart = NoStart

NoStore == [active |-> FALSE]

NoCall == [op |-> "none", name |-> "", status |-> 0, ran |-> {}]

\* No Store call is in progress.
InitStore == storing = NoStore

\* A server fresh from New over an empty data directory.
InitServer ==
    /\ db = EmptyMap
    /\ bootRegistries = EmptyMap
    /\ dockerManager = "api"
    /\ mainRouter = {}
    /\ phase = "new"
    /\ lastApi = NoCall

\* A Registry under a Manager that may or may not hold a TLS config.
\* The lock is free and no handler is in flight.
NoHolder == ""

NoLocal == [buf |-> <<>>, resp |-> BaseResp, next |-> "done"]

InitLock ==
    /\ mu = NoHolder
    /\ local = [c \in Clients |-> NoLocal]
    /\ log = EmptyMap

InitMgr == InitRegistry /\ InitManager /\ InitStore /\ InitServer /\ InitLock

\* A Registry served without TLS.
Init == InitMgr /\ ~tlsConfig

\* An Upload object no longer in the table and held by no handler in flight
\* is garbage; live are the ids handlers in flight hold.
Collect(S, live) ==
    [S EXCEPT !.heap = [u \in (DOMAIN S.heap) \cap (S.uploads \cup live) |-> S.heap[u]]]

\* The handler's result becomes the state.
Install(st) ==
    /\ manifests' = st.manifests
    /\ uploads' = st.uploads
    /\ heap' = st.heap
    /\ nextUUID' = st.nextUUID
    /\ files' = st.files

\* History of the sessions still open.
Open(hist, S) == [u \in (DOMAIN hist) \cap S.uploads |-> hist[u]]

----------------------------------------------------------------------------
(* One request at a time: each action is a whole handler.                  *)

BlobUploadPost ==
    \E q \in PostRequests :
        /\ nextUUID <= MaxUploads
        /\ Install(handleBlobUploadPost(Cur, q).st)
        /\ acked' = With(acked, nextUUID, <<>>)
        /\ UNCHANGED <<req, rejected, closed, tagPut, managerVars, storeVars, serverVars, lockVars>>

BlobUploadPatch ==
    \E q \in PatchRequests :
        /\ FitsBuffer(Cur, q)
        /\ LET h == handleBlobUploadPatch(Cur, q)
           IN /\ Install(h.st)
              /\ acked' = IF h.resp.status = 202
                          THEN [acked EXCEPT ![q.uuid] = @ \o q.body] ELSE acked
        /\ UNCHANGED <<req, rejected, closed, tagPut, managerVars, storeVars, serverVars, lockVars>>

BlobUploadPut ==
    \E q \in PutRequests :
        /\ FitsBuffer(Cur, q)
        /\ \E o \in IF q.digest # EmptyStr /\ PutLocked(Cur, q).next = "store"
                    THEN StoreOutcomes ELSE {"ok"} :
             LET h == handleBlobUploadPut(Cur, WithIO(q, o))
                 st == Collect(h.st, {})
             IN /\ Install(st)
                /\ acked' = Open(acked, st)
                /\ rejected' = IF h.resp.code = "DIGEST_INVALID" /\ q.uuid \in uploads
                               THEN rejected \cup {q.uuid}
                               ELSE rejected \cap st.uploads
                /\ closed' = IF h.resp.status = 201 THEN closed \cup {q.uuid}
                             ELSE closed
        /\ UNCHANGED <<req, tagPut, managerVars, storeVars, serverVars, lockVars>>

BlobUploadGet ==
    \E q \in UploadGetRequests :
        /\ Install(handleBlobUploadGet(Cur, q).st)
        /\ UNCHANGED <<req, acked, rejected, closed, tagPut, managerVars, storeVars, serverVars, lockVars>>

BlobUploadDelete ==
    \E q \in UploadDeleteRequests :
        /\ LET st == Collect(handleBlobUploadDelete(Cur, q).st, {})
           IN /\ Install(st)
              /\ acked' = Open(acked, st)
              /\ rejected' = rejected \cap st.uploads
        /\ closed' = IF q.uuid \in uploads THEN closed \cup {q.uuid} ELSE closed
        /\ UNCHANGED <<req, tagPut, managerVars, storeVars, serverVars, lockVars>>

BlobGet ==
    \E q \in BlobGetRequests :
        /\ Install(handleBlobGet(Cur, q).st)
        /\ UNCHANGED <<req, acked, rejected, closed, tagPut, managerVars, storeVars, serverVars, lockVars>>

BlobDelete ==
    \E q \in BlobDeleteRequests :
        /\ Install(handleBlobDelete(Cur, q).st)
        /\ UNCHANGED <<req, acked, rejected, closed, tagPut, managerVars, storeVars, serverVars, lockVars>>

NextBlob ==
    \/ BlobUploadPost
    \/ BlobUploadPatch
    \/ BlobUploadPut
    \/ BlobUploadGet
    \/ BlobUploadDelete
    \/ BlobGet
    \/ BlobDelete

SpecBlob == Init /\ [][NextBlob]_vars

----------------------------------------------------------------------------
(* Manifest requests, one at a time.                                       *)

\* What a PUT or DELETE of a tag leaves in the history.
PutEvent(q, status) == [kind |-> "put", body |-> q.body, ctype |-> q.ctype,
                        status |-> status]
DeleteEvent(S, q) == [kind |-> "deleted", body |-> S.manifests[q.name][q.ref].Raw,
                      ctype |-> "", status |-> 202]

ManifestPut ==
    \E q \in ManifestPutRequests :
        \E o \in IF ~q.readErr /\ ~Unmarshal(q.body).err THEN StoreOutcomes ELSE {"ok"} :
            LET h == handleManifestPut(Cur, WithIO(q, o))
            IN /\ Install(h.st)
               /\ tagPut' = IF q.ref \in Tags /\ h.resp.status \in {201, 500}
                            THEN [tagPut EXCEPT ![<<q.name, q.ref>>] =
                                      PutEvent(q, h.resp.status)]
                            ELSE tagPut
               /\ UNCHANGED <<req, acked, rejected, closed, managerVars, storeVars, serverVars, lockVars>>

ManifestGet ==
    \E q \in ManifestGetRequests :
        /\ Install(handleManifestGet(Cur, q).st)
        /\ UNCHANGED <<req, acked, rejected, closed, tagPut, managerVars, storeVars, serverVars, lockVars>>

ManifestDelete ==
    \E q \in ManifestDeleteRequests :
        LET h == handleManifestDelete(Cur, q)
        IN /\ Install(h.st)
           /\ tagPut' = IF q.ref \in Tags /\ h.resp.status = 202
                        THEN [tagPut EXCEPT ![<<q.name, q.ref>>] = DeleteEvent(Cur, q)]
                        ELSE tagPut
           /\ UNCHANGED <<req, acked, rejected, closed, managerVars, storeVars, serverVars, lockVars>>

TagsList ==
    \E q \in TagsListRequests :
        /\ Install(handleTagsList(Cur, q).st)
        /\ UNCHANGED <<req, acked, rejected, closed, tagPut, managerVars, storeVars, serverVars, lockVars>>

Catalog ==
    \E q \in CatalogRequests :
        /\ Install(handleCatalog(Cur, q).st)
        /\ UNCHANGED <<req, acked, rejected, closed, tagPut, managerVars, storeVars, serverVars, lockVars>>

NextManifest ==
    \/ ManifestPut
    \/ ManifestGet
    \/ ManifestDelete
    \/ TagsList
    \/ Catalog

SpecManifest == Init /\ [][NextManifest]_vars

----------------------------------------------------------------------------
(* What a client observes in state S.                                      *)

GetManifest(S, n, r) ==
    handleManifestGet(S, [BaseReq EXCEPT !.op = "ManifestGet", !.name = n, !.ref = r,
                                         !.method = "GET"]).resp

ListTags(S, n) ==
    handleTagsList(S, [BaseReq EXCEPT !.op = "TagsList", !.name = n]).resp.tags

ListRepositories(S) ==
    handleCatalog(S, [BaseReq EXCEPT !.op = "Catalog"]).resp.repositories

GetBlob(S, n, d) ==
    handleBlobGet(S, [BaseReq EXCEPT !.op = "BlobGet", !.name = n, !.digest = d,
                                     !.method = "GET"]).resp

DigestReferences == {r \in References : HasPrefix(r, "sha256:")}

----------------------------------------------------------------------------
(* Manifest properties.                                                    *)

\* C4: when the last PUT or DELETE of tag T in repo R was a PUT answered 201
\* that carried body B and Content-Type header C, GET of T returns 200 with
\* body exactly B and Content-Type C, also when the mediaType field of B names
\* a different type.
ManifestRoundTrip ==
    \A k \in DOMAIN tagPut :
        LET p == tagPut[k]
            g == GetManifest(Cur, k[1], k[2])
        IN (p.kind = "put" /\ p.status = 201 /\ p.ctype # "")
               => /\ g.status = 200
                  /\ g.body = p.body
                  /\ g.ctype = p.ctype

\* C4 witness: a tag was last pushed with a header that disagrees with the
\* mediaType field of the body, and GET answers with the header's type.
ManifestRoundTripWitness ==
    \E k \in DOMAIN tagPut :
        LET p == tagPut[k]
        IN /\ p.kind = "put" /\ p.status = 201 /\ p.ctype # ""
           /\ Unmarshal(p.body).MediaType \notin {"", p.ctype}
           /\ GetManifest(Cur, k[1], k[2]).ctype = p.ctype
           /\ GetManifest(Cur, k[1], k[2]).body = p.body

\* C5: in every state, a PUT of body B under a tag that is answered 201
\* leaves the record bound under sha256:hex(sha256(B)) as well: GET by that
\* digest returns 200 with body exactly B, the same record the tag names.
TagPutBindsDigest ==
    \A q \in ManifestPutRequests :
        \A o \in StoreOutcomes :
            LET h == handleManifestPut(Cur, WithIO(q, o))
                g == GetManifest(h.st, q.name, Digest(q.body))
            IN (q.ref \in Tags /\ h.resp.status = 201)
                   => /\ g.status = 200
                      /\ g.body = q.body
                      /\ h.st.manifests[q.name][Digest(q.body)]
                             = h.st.manifests[q.name][q.ref]

\* C5 witness: a tag was pushed and its body is returned by digest.
TagPutBindsDigestWitness ==
    \E k \in DOMAIN tagPut :
        LET p == tagPut[k]
            g == GetManifest(Cur, k[1], Digest(p.body))
        IN /\ p.kind = "put" /\ p.status = 201
           /\ g.status = 200 /\ g.body = p.body
           /\ GetManifest(Cur, k[1], k[2]).body = p.body

\* C6: in every state, a DELETE of a tag T in repo R that is answered 202
\* leaves GET of T answering 404 MANIFEST_UNKNOWN and T absent from the tags
\* list of R, and GET by every digest reference answers as it did before.
TagDeleteKeepsDigest ==
    \A q \in ManifestDeleteRequests :
        LET h == handleManifestDelete(Cur, q)
            g == GetManifest(h.st, q.name, q.ref)
        IN (q.ref \in Tags /\ h.resp.status = 202)
               => /\ g.status = 404 /\ g.code = "MANIFEST_UNKNOWN"
                  /\ q.ref \notin ListTags(h.st, q.name)
                  /\ \A d \in DigestReferences :
                        GetManifest(h.st, q.name, d) = GetManifest(Cur, q.name, d)

\* C6 witness: a tag has been deleted, GET of it answers 404, and the record
\* it named is still returned by its digest.
TagDeleteKeepsDigestWitness ==
    \E k \in DOMAIN tagPut :
        LET p == tagPut[k]
            g == GetManifest(Cur, k[1], Digest(p.body))
        IN /\ p.kind = "deleted"
           /\ GetManifest(Cur, k[1], k[2]).status = 404
           /\ k[2] \notin ListTags(Cur, k[1])
           /\ g.status = 200 /\ g.body = p.body

\* C7: in every state, the tags list of a repo holds exactly the references
\* without the prefix "sha256:" that GET finds in that repo, and the catalog
\* names every repo in which GET finds some reference.
TagsAndCatalog ==
    \A n \in Repos :
        LET bound == {r \in References : GetManifest(Cur, n, r).status = 200}
        IN /\ ListTags(Cur, n) = {r \in bound : ~HasPrefix(r, "sha256:")}
           /\ (bound # {} => n \in ListRepositories(Cur))

\* C7 witness: a repo holds a tag and a digest reference; only the tag is
\* listed, and the repo is in the catalog.
TagsAndCatalogWitness ==
    \E n \in Repos :
        /\ ListTags(Cur, n) # {}
        /\ \E d \in DigestReferences : GetManifest(Cur, n, d).status = 200
        /\ n \in ListRepositories(Cur)

----------------------------------------------------------------------------
(* Blob upload properties, one request at a time.                          *)

\* The PUT q is addressed to an open session and its body can be read whole.
ReadablePut(q) == q.uuid \in uploads /\ ~q.readErr /\ FitsBuffer(Cur, q)

\* What the session's buffer holds once the body of q is appended to it.
FullBuffer(q) == heap[q.uuid].Data \o q.body

\* q has no digest parameter, or one that is not the digest of the full buffer.
BadDigest(q) == q.digest = EmptyStr \/ q.digest # Digest(FullBuffer(q))

\* The PUT q is answered DIGEST_INVALID (400) and changes neither the Blob
\* Store nor the session table.
Refused(q) ==
    \A o \in StoreOutcomes :
        LET h == handleBlobUploadPut(Cur, WithIO(q, o))
        IN /\ h.resp.status = 400 /\ h.resp.code = "DIGEST_INVALID"
           /\ h.st.files = files
           /\ q.uuid \in h.st.uploads

\* C2: in every state, a PUT on an open session without a digest parameter,
\* or with a digest that is not the sha256 of the buffer followed by the PUT
\* body, is answered DIGEST_INVALID (400), leaves the Blob Store unchanged and
\* leaves the session open.
DigestInvalidKeepsSession ==
    \A q \in PutRequests : (ReadablePut(q) /\ BadDigest(q)) => Refused(q)

\* The same for a PUT whose body has a declared length.
DigestInvalidDeclaredLength ==
    \A q \in PutRequests : (ReadablePut(q) /\ BadDigest(q) /\ ~q.chunked) => Refused(q)

\* A PUT was refused, its session is still open and blobs are stored.
DigestInvalidWitness ==
    /\ rejected \cap uploads # {}
    /\ DOMAIN files # {}

\* The PUT q is answered 201 and GET of its digest then returns the
\* acknowledged PATCH bodies in order followed by the body of q.
RoundTrips(q) ==
    LET h == handleBlobUploadPut(Cur, q)
        g == GetBlob(h.st, q.name, q.digest)
    IN /\ h.resp.status = 201
       /\ g.status = 200
       /\ g.body = acked[q.uuid] \o q.body

\* The PUT q ends a sequence POST, PATCH.. on an open session and names the
\* digest of the PATCH bodies followed by its own body.
FinalPut(q) ==
    /\ ReadablePut(q)
    /\ q.uuid \notin rejected
    /\ q.digest = Digest(acked[q.uuid] \o q.body)

\* C3: in every state reached by POST and PATCHes, a final PUT whose digest
\* is that of the PATCH bodies in order followed by the PUT body is answered
\* 201, and GET of the digest returns exactly those bytes (the empty blob
\* included).
BlobRoundTrip ==
    \A q \in PutRequests : FinalPut(q) => RoundTrips(q)

\* The same for a PUT whose body has a declared length.
BlobRoundTripDeclaredLength ==
    \A q \in PutRequests : (FinalPut(q) /\ ~q.chunked) => RoundTrips(q)

\* Two PATCH bodies were acknowledged for a session that is still open.
BlobRoundTripWitness ==
    \E u \in uploads : u \notin rejected /\ Len(acked[u]) = 2

NotFoundUpload(resp) == resp.status = 404 /\ resp.code = "BLOB_UPLOAD_UNKNOWN"

\* C8: in every state, an upload id that was committed by a PUT answered 201
\* or aborted by DELETE is not in the session table, and every PATCH, PUT
\* with a digest, and GET on it is answered BLOB_UPLOAD_UNKNOWN (404).
UploadClosedForever ==
    /\ closed \cap uploads = {}
    /\ \A q \in PatchRequests :
          q.uuid \in closed => NotFoundUpload(handleBlobUploadPatch(Cur, q).resp)
    /\ \A q \in PutRequests :
          (q.uuid \in closed /\ q.digest # EmptyStr)
              => NotFoundUpload(handleBlobUploadPut(Cur, q).resp)
    /\ \A q \in UploadGetRequests :
          q.uuid \in closed => NotFoundUpload(handleBlobUploadGet(Cur, q).resp)

\* C8 witness: a session was closed, a blob is committed, and a session
\* created after the closed one is open.
UploadClosedForeverWitness ==
    /\ \E u \in closed : \E v \in uploads : v > u
    /\ \E u \in closed : \E k \in DOMAIN files : k[2] = BlobPath(Digest(files[k]))

----------------------------------------------------------------------------
(* Concurrent clients: a handler is a sequence of steps, one per critical  *)
(* section and one per Blob Store call made outside the lock.              *)

\* The upload ids the handlers in flight hold a pointer to.
Held(rq) == {rq[c].uuid : c \in {d \in Clients : rq[d].pc # "idle"}}

\* Bytes the PATCH handlers in flight are still to append to upload u.
RECURSIVE Pending(_, _, _)
Pending(rq, cs, u) ==
    IF cs = {} THEN 0
    ELSE LET c == CHOOSE x \in cs : TRUE
         IN (IF rq[c].pc = "append" /\ rq[c].uuid = u THEN Len(rq[c].body) ELSE 0)
                + Pending(rq, cs \ {c}, u)

\* The buffer of q's upload stays within the model's bound once q and the
\* PATCHes in flight have appended.
FitsPending(q) ==
    q.uuid \in DOMAIN heap
        => Len(heap[q.uuid].Data) + Pending(req, Clients, q.uuid) + Len(q.body) <= MaxData

\* The requests of the concurrent clients: all to one repository, with
\* bodies of declared length that are read without error.
ConcRepos == {"r1"}
ConcPostRequests == {q \in PostRequests : q.name \in ConcRepos}
ConcPatchRequests == {q \in PatchRequests : q.name \in ConcRepos /\ ~q.readErr}
ConcPutRequests ==
    {q \in PutRequests : /\ q.name \in ConcRepos
                         /\ ~q.readErr /\ ~q.chunked /\ q.digest # EmptyStr}
ConcDeleteRequests == {q \in UploadDeleteRequests : q.name \in ConcRepos}

ConcPost(c) ==
    /\ req[c].pc = "idle"
    /\ nextUUID <= MaxUploads
    /\ \E q \in ConcPostRequests : Install(handleBlobUploadPost(Cur, q).st)
    /\ UNCHANGED <<req, acked, rejected, closed, tagPut, managerVars, storeVars, serverVars, lockVars>>

\* PATCH: the lookup under the lock; the handler then holds the Upload.
PatchBegin(c) ==
    /\ req[c].pc = "idle"
    /\ \E q \in ConcPatchRequests :
          /\ FitsPending(q)
          /\ PatchLookup(Cur, q)
          /\ req' = [req EXCEPT ![c] = [q EXCEPT !.pc = "append"]]
    /\ UNCHANGED <<manifests, uploads, heap, nextUUID, files, acked, rejected, closed,
                   tagPut, managerVars, storeVars, serverVars, lockVars>>

\* PATCH: the append under the lock, and the response.
PatchEnd(c) ==
    /\ req[c].pc = "append"
    /\ req' = [req EXCEPT ![c] = Idle]
    /\ Install(Collect(PatchAppend(Cur, req[c]), Held(req')))
    /\ UNCHANGED <<acked, rejected, closed, tagPut, managerVars, storeVars, serverVars, lockVars>>

\* PUT: the critical section; on a matching digest the handler goes on to
\* the store holding the Upload it removed from the table.
PutBegin(c) ==
    /\ req[c].pc = "idle"
    /\ \E q \in ConcPutRequests :
          /\ FitsPending(q)
          /\ LET l == PutLocked(Cur, q)
             IN /\ req' = [req EXCEPT ![c] = IF l.next = "store"
                                             THEN [q EXCEPT !.pc = "store"] ELSE Idle]
                /\ Install(Collect(l.st, Held(req')))
    /\ UNCHANGED <<acked, rejected, closed, tagPut, managerVars, storeVars, serverVars, lockVars>>

\* PUT: the store of upload.Data, read after the lock was released.
PutEnd(c) ==
    /\ req[c].pc = "store"
    /\ req' = [req EXCEPT ![c] = Idle]
    /\ \E o \in StoreOutcomes :
          Install(Collect(PutStore(Cur, WithIO(req[c], o)).st, Held(req')))
    /\ UNCHANGED <<acked, rejected, closed, tagPut, managerVars, storeVars, serverVars, lockVars>>

ConcUploadDelete(c) ==
    /\ req[c].pc = "idle"
    /\ \E q \in ConcDeleteRequests :
          Install(Collect(handleBlobUploadDelete(Cur, q).st, Held(req)))
    /\ UNCHANGED <<req, acked, rejected, closed, tagPut, managerVars, storeVars, serverVars, lockVars>>

NextConc ==
    \E c \in Clients :
        \/ ConcPost(c)
        \/ PatchBegin(c)
        \/ PatchEnd(c)
        \/ PutBegin(c)
        \/ PutEnd(c)
        \/ ConcUploadDelete(c)

SpecConc == Init /\ [][NextConc]_vars

\* C1: in every state, every file of the Blob Store at blobs/<d> of any repo
\* has content whose sha256 digest is d.
BlobContentDigest ==
    \A k \in DOMAIN files :
        HasPrefix(k[2], "blobs") => k[2] = BlobPath(Digest(files[k]))

\* A blob is stored.
BlobContentDigestWitness ==
    \E k \in DOMAIN files : HasPrefix(k[2], "blobs")

----------------------------------------------------------------------------
(* The Registry Manager's operations.                                      *)

StopOutcomes == {"ok", "deadline"}

\* A Registry that is neither registered nor about to listen nor listening
\* is garbage.
CollectInst(M) ==
    LET ids == {M.registries[name] : name \in DOMAIN M.registries}
    IN [M EXCEPT !.inst = [id \in {i \in DOMAIN M.inst :
                                      i \in ids \/ M.inst[i].server \in {"nil", "listening"}}
                              |-> M.inst[id]]]

InstallMgr(M) ==
    /\ registries' = M.registries
    /\ inst' = M.inst
    /\ tlsConfig' = M.tlsConfig

MgrStartRegistry ==
    \E repo \in RepoNames, config \in Configs, early \in BOOLEAN :
        LET h == StartRegistry(Mgr, repo, config, early)
        IN /\ h.st.inst # inst => Cardinality(DOMAIN inst) < MaxInst
           /\ InstallMgr(CollectInst(h.st))
           /\ lastStart' = IF h.err = "port conflict"
                           THEN [repo |-> repo, config |-> config, err |-> h.err]
                           ELSE NoStart
           /\ UNCHANGED <<registryVars, storeVars, serverVars, lockVars>>

\* The goroutine StartRegistry left behind runs Registry.Start: a port
\* another registry of the process listens on cannot be bound.
RegistryStart ==
    \E id \in DOMAIN inst, outcome \in {"ok", "err"} :
        /\ inst[id].server = "nil"
        /\ outcome = "ok" =>
              \A other \in DOMAIN inst :
                  inst[other].server = "listening" => Addr(inst[other]) # Addr(inst[id])
        /\ InstallMgr(CollectInst([Mgr EXCEPT !.inst[id] = Start(@, outcome)]))
        /\ lastStart' = NoStart
        /\ UNCHANGED <<registryVars, storeVars, serverVars, lockVars>>

MgrStopRegistry ==
    \E repoName \in RepoNames, outcome \in StopOutcomes :
        /\ InstallMgr(CollectInst(StopRegistry(Mgr, repoName, outcome).st))
        /\ lastStart' = NoStart
        /\ UNCHANGED <<registryVars, storeVars, serverVars, lockVars>>

MgrStopAll ==
    \E outcome \in [DOMAIN registries -> StopOutcomes] :
        /\ InstallMgr(CollectInst(StopAll(Mgr, outcome).st))
        /\ lastStart' = NoStart
        /\ UNCHANGED <<registryVars, storeVars, serverVars, lockVars>>

MgrGetRegistry ==
    \E repoName \in RepoNames :
        /\ GetRegistry(Mgr, repoName).exists \in BOOLEAN
        /\ UNCHANGED vars

MgrIsPortInUse ==
    \E httpPort \in Ports, httpsPort \in Ports :
        /\ IsPortInUse(Mgr, httpPort, httpsPort) \in BOOLEAN
        /\ UNCHANGED vars

NextMgr ==
    \/ MgrStartRegistry
    \/ RegistryStart
    \/ MgrStopRegistry
    \/ MgrStopAll
    \/ MgrGetRegistry
    \/ MgrIsPortInUse

SpecMgr == InitMgr /\ [][NextMgr]_vars

\* The configuration of the registry registered under a name.
ConfigOf(name) == inst[registries[name]].config

\* C9: in every state, when a registry r1 is registered with HTTP port P > 0,
\* StartRegistry for a repository r2 that has no registry, with HTTP port P,
\* returns a port-conflict error, creates no Registry (so no listener is
\* opened) and registers nothing.
HTTPPortConflictRefused ==
    \A r1 \in DOMAIN registries :
        \A r2 \in RepoNames \ DOMAIN registries :
            \A config \in Configs, early \in BOOLEAN :
                (ConfigOf(r1).HTTPPort > 0 /\ config.HTTPPort = ConfigOf(r1).HTTPPort)
                    => LET h == StartRegistry(Mgr, r2, config, early)
                       IN h.err = "port conflict" /\ h.st = Mgr

\* C9 witness: the last StartRegistry was refused for a port conflict with
\* the HTTP port of a registry that is registered and listening, and its
\* repository has no registry.
HTTPPortConflictWitness ==
    /\ lastStart.err = "port conflict"
    /\ lastStart.repo \notin DOMAIN registries
    /\ \E r1 \in DOMAIN registries :
          /\ ConfigOf(r1).HTTPPort > 0
          /\ ConfigOf(r1).HTTPPort = lastStart.config.HTTPPort
          /\ inst[registries[r1]].server = "listening"

\* The non-zero ports a configuration declares.
DeclaredPorts(config) == {config.HTTPPort, config.HTTPSPort} \ {0}

\* C10: in every state, no non-zero port number is declared by two
\* registered registries.
NoSharedPort ==
    \A r1, r2 \in DOMAIN registries :
        r1 # r2 => DeclaredPorts(ConfigOf(r1)) \cap DeclaredPorts(ConfigOf(r2)) = {}

\* In every state, StartRegistry with a non-zero port equal to any port of a
\* registered registry returns an error.
AnyPortConflictRefused ==
    \A r2 \in RepoNames \ DOMAIN registries :
        \A config \in Configs, early \in BOOLEAN :
            (\E r1 \in DOMAIN registries :
                 DeclaredPorts(config) \cap DeclaredPorts(ConfigOf(r1)) # {})
                => StartRegistry(Mgr, r2, config, early).err # ""

----------------------------------------------------------------------------
(* Push and pull against one Registry: every route of the router, the      *)
(* pushes narrowed to a few requests so that manifests, sessions and blobs *)
(* are all present together.                                               *)

\* setupRoutes: the handler the router picks for a request.
ServeHTTP(S, q) ==
    CASE q.op = "Catalog"          -> handleCatalog(S, q)
      [] q.op = "TagsList"         -> handleTagsList(S, q)
      [] q.op = "ManifestGet"      -> handleManifestGet(S, q)
      [] q.op = "ManifestPut"      -> handleManifestPut(S, q)
      [] q.op = "ManifestDelete"   -> handleManifestDelete(S, q)
      [] q.op = "BlobGet"          -> handleBlobGet(S, q)
      [] q.op = "BlobDelete"       -> handleBlobDelete(S, q)
      [] q.op = "BlobUploadPost"   -> handleBlobUploadPost(S, q)
      [] q.op = "BlobUploadPatch"  -> handleBlobUploadPatch(S, q)
      [] q.op = "BlobUploadPut"    -> handleBlobUploadPut(S, q)
      [] q.op = "BlobUploadGet"    -> handleBlobUploadGet(S, q)
      [] q.op = "BlobUploadDelete" -> handleBlobUploadDelete(S, q)

\* The requests that push: uploads to r1, one tagged manifest to r2.
PushRequests ==
    ConcPostRequests \cup ConcPatchRequests \cup ConcPutRequests
        \cup {q \in ManifestPutRequests : q.name = "r2"}

\* The requests that pull: every GET and HEAD the router serves.
PullRequests ==
    ManifestGetRequests \cup BlobGetRequests \cup TagsListRequests
        \cup CatalogRequests \cup UploadGetRequests

Push ==
    \E q \in PushRequests :
        /\ q.op = "BlobUploadPost" => nextUUID <= MaxUploads
        /\ q.op \in {"BlobUploadPatch", "BlobUploadPut"} => FitsBuffer(Cur, q)
        /\ Install(Collect(ServeHTTP(Cur, q).st, {}))
        /\ UNCHANGED <<req, acked, rejected, closed, tagPut, managerVars, storeVars,
                       serverVars, lockVars>>

Pull ==
    \E q \in PullRequests :
        /\ Install(ServeHTTP(Cur, q).st)
        /\ UNCHANGED <<req, acked, rejected, closed, tagPut, managerVars, storeVars,
                       serverVars, lockVars>>

NextPull ==
    \/ Push
    \/ Pull

SpecPull == Init /\ [][NextPull]_vars

\* C20: pull never mutates: in every reachable state, a GET or HEAD of a
\* manifest, a blob, the tags list, the catalog or an upload's status leaves
\* the manifest index, the upload session table and the blob store exactly
\* as they were.
PullNeverMutates == \A q \in PullRequests : ServeHTTP(Cur, q).st = Cur

\* Manifests, sessions and blobs are all present, and a pull of each kind is
\* answered from them.
PullNeverMutatesWitness ==
    /\ \E q \in ManifestGetRequests : ServeHTTP(Cur, q).resp.status = 200
    /\ \E q \in BlobGetRequests : ServeHTTP(Cur, q).resp.status = 200
    /\ \E q \in UploadGetRequests : ServeHTTP(Cur, q).resp.status = 204
    /\ \E q \in TagsListRequests : ServeHTTP(Cur, q).resp.tags # {}
    /\ \E q \in CatalogRequests : ServeHTTP(Cur, q).resp.repositories # {}

----------------------------------------------------------------------------
(* Repositories as namespaces of the blob store.                           *)

HeadBlob(S, n, d) ==
    handleBlobGet(S, [BaseReq EXCEPT !.op = "BlobGet", !.name = n, !.digest = d,
                                     !.method = "HEAD"]).resp

\* Digest d is served under repository n, to GET or to HEAD.
Visible(S, n, d) == GetBlob(S, n, d).status = 200 \/ HeadBlob(S, n, d).status = 200

\* The step is a PUT addressed to repository n that commits digest d.
CommitsUnder(n, d) ==
    \E q \in PutRequests, o \in StoreOutcomes :
        LET h == handleBlobUploadPut(Cur, WithIO(q, o))
        IN /\ q.name = n /\ q.digest = d
           /\ h.resp.status = 201
           /\ files' = h.st.files

\* Uploads to either repository, their bodies of declared length and read
\* without error.
UploadRequests ==
    PostRequests \cup {q \in PatchRequests : ~q.readErr}
        \cup {q \in PutRequests : ~q.readErr /\ ~q.chunked /\ q.digest # EmptyStr}

\* Deletes of upload sessions and of blobs.
DeleteRequests == UploadDeleteRequests \cup BlobDeleteRequests

Uploads ==
    \E q \in UploadRequests :
        /\ q.op = "BlobUploadPost" => nextUUID <= MaxUploads
        /\ q.op \in {"BlobUploadPatch", "BlobUploadPut"} => FitsBuffer(Cur, q)
        /\ \E o \in IF q.op = "BlobUploadPut" /\ PutLocked(Cur, q).next = "store"
                    THEN StoreOutcomes ELSE {"ok"} :
               Install(Collect(ServeHTTP(Cur, WithIO(q, o)).st, {}))
        /\ UNCHANGED <<req, acked, rejected, closed, tagPut, managerVars, storeVars,
                       serverVars, lockVars>>

Deletes ==
    \E q \in DeleteRequests :
        /\ Install(Collect(ServeHTTP(Cur, q).st, {}))
        /\ UNCHANGED <<req, acked, rejected, closed, tagPut, managerVars, storeVars,
                       serverVars, lockVars>>

NextNamespace ==
    \/ Uploads
    \/ Deletes

SpecNamespace == Init /\ [][NextNamespace]_vars

\* C19: the blob store isolates repositories: whatever sequence of uploads
\* and deletes runs, a digest comes to be served by GET or HEAD under a
\* repository name B only in a step that commits it under B itself, so a
\* blob committed only under another name A is never returned under B.
BlobIsolation ==
    [][\A n \in Repos, d \in DigestInputs :
          (~Visible(Cur, n, d) /\ Visible(Cur, n, d)') => CommitsUnder(n, d)]_vars

\* A digest is served under r1 and unknown under r2.
BlobIsolationWitness ==
    \E d \in DigestInputs :
        /\ GetBlob(Cur, "r1", d).status = 200 /\ HeadBlob(Cur, "r1", d).status = 200
        /\ GetBlob(Cur, "r2", d).status = 404 /\ HeadBlob(Cur, "r2", d).status = 404

----------------------------------------------------------------------------
(* FileStorage.Store step by step, as the readers of the same file see it. *)

\* The files Store is called on: a blob's and a tagged manifest's.
StorePaths == {BlobPath(Digest(<<"a">>))} \cup {ManifestPath(t) : t \in Tags}

\* What Exists and Retrieve report of a file: <<>> when it is absent, else
\* its content in a one-element sequence.
Observed(fl, repo, path) ==
    IF Exists(fl, repo, path) THEN <<Retrieve(fl, repo, path).content>> ELSE <<>>

\* Store up to os.Create: a failed MkdirAll or Create returns; a successful
\* Create leaves the file empty, whatever it held.
StoreCreate ==
    /\ ~storing.active
    /\ \E path \in StorePaths, content \in DataSeqs, o \in {"ok", "create_err"} :
          IF o = "create_err" THEN UNCHANGED <<files, storing>>
          ELSE /\ files' = With(files, <<"r1", path>>, <<>>)
               /\ storing' = [active |-> TRUE, repo |-> "r1", path |-> path,
                              content |-> content, written |-> 0,
                              prev |-> Observed(files, "r1", path)]
    /\ UNCHANGED <<manifests, uploads, heap, nextUUID, req, acked, rejected, closed,
                   tagPut, managerVars, serverVars, lockVars>>

\* io.Copy: one more write reaches the file, or the copy fails and Store
\* removes the file and returns.
StoreCopy ==
    /\ storing.active
    /\ storing.written < Len(storing.content)
    /\ \E o \in {"ok", "write_err"} :
          IF o = "write_err"
          THEN /\ files' = Without(files, <<storing.repo, storing.path>>)
               /\ storing' = NoStore
          ELSE /\ files' = With(files, <<storing.repo, storing.path>>,
                                SubSeq(storing.content, 1, storing.written + 1))
               /\ storing' = [storing EXCEPT !.written = @ + 1]
    /\ UNCHANGED <<manifests, uploads, heap, nextUUID, req, acked, rejected, closed,
                   tagPut, managerVars, serverVars, lockVars>>

\* io.Copy has reached the end of the reader: Store closes the file and
\* returns nil.
StoreReturn ==
    /\ storing.active
    /\ storing.written = Len(storing.content)
    /\ storing' = NoStore
    /\ UNCHANGED <<registryVars, managerVars, serverVars, lockVars>>

NextStore ==
    \/ StoreCreate
    \/ StoreCopy
    \/ StoreReturn

SpecStore == Init /\ [][NextStore]_vars

\* C18: Store is atomic: while a Store of a file is in progress, Exists and
\* Retrieve of that file report either the state before the call or the
\* complete new content, never a partial write.
StoreAtomic ==
    storing.active =>
        Observed(files, storing.repo, storing.path)
            \in {storing.prev, <<storing.content>>}

\* A Store replacing a file is under way and has written part of its content.
StoreAtomicWitness ==
    /\ storing.active
    /\ storing.prev # <<>>
    /\ storing.written > 0 /\ storing.written < Len(storing.content)

----------------------------------------------------------------------------
(* The server: the descriptor bucket, the Control API handler with the     *)
(* Manager it was built with, and the life of the server process.          *)

\* CreateRepository: the HTTP port a docker repository gets when it names
\* none.
DefaultHTTPPort == 5000

\* The port configurations the Control API is asked for.
ApiConfigs ==
    {[HTTPPort |-> 0, HTTPSPort |-> 0], [HTTPPort |-> 5000, HTTPSPort |-> 0],
     [HTTPPort |-> 0, HTTPSPort |-> 5000], [HTTPPort |-> 5001, HTTPSPort |-> 0],
     [HTTPPort |-> 5000, HTTPSPort |-> 5001]}

\* POST /api/v1/repositories bodies: docker repositories with a config, one
\* without, and raw repositories.
CreateRequests ==
    {[name |-> n, type |-> "docker", hasConfig |-> TRUE, config |-> c] :
        n \in RepoNames, c \in ApiConfigs}
    \cup {[name |-> n, type |-> t, hasConfig |-> FALSE, config |-> NoStart.config] :
              n \in RepoNames, t \in {"docker", "raw"}}

\* The server's state as the handlers see it.
Server == [db |-> db, registries |-> registries, bootRegistries |-> bootRegistries,
           inst |-> inst, dockerManager |-> dockerManager, mainRouter |-> mainRouter,
           phase |-> phase]

\* The Manager of Server.New, built without a TLS config: the one the API
\* handler holds.
ApiManager(S) == [registries |-> S.registries, inst |-> S.inst, tlsConfig |-> FALSE]

\* The Manager of Server.Start, built with the TLS config of the server.
BootManager(S) == [registries |-> S.bootRegistries, inst |-> S.inst, tlsConfig |-> TRUE]

SetApiManager(S, M) == [S EXCEPT !.registries = M.registries, !.inst = M.inst]

SetBootManager(S, M) == [S EXCEPT !.bootRegistries = M.registries, !.inst = M.inst]

\* Handler.writeError and the success responses of the Control API.
ApiResp(status, message) == [status |-> status, message |-> message]

\* repository.Manager
RepoCreate(bucket, name, descriptor) ==
    IF name \in DOMAIN bucket THEN [err |-> "ErrRepositoryExists", db |-> bucket]
    ELSE [err |-> "", db |-> With(bucket, name, descriptor)]

\* A Delete that leaves the descriptor in the bucket.
RepoKeep(bucket, name) ==
    [err |-> IF name \in DOMAIN bucket THEN "" ELSE "ErrRepositoryNotFound", db |-> bucket]

RepoDelete(bucket, name) ==
    IF name \notin DOMAIN bucket THEN [err |-> "ErrRepositoryNotFound", db |-> bucket]
    ELSE [err |-> "", db |-> Without(bucket, name)]

\* A CreateRepository that takes the ports as they were sent.
ConfigAsSent(q) ==
    IF q.hasConfig THEN q.config ELSE [HTTPPort |-> 0, HTTPSPort |-> 0]

\* The config CreateRepository works with: json.Unmarshal of the body's
\* config or the default, and the default HTTP port when both are zero.
CreateConfig(q) ==
    LET config == IF q.hasConfig THEN q.config
                  ELSE [HTTPPort |-> DefaultHTTPPort, HTTPSPort |-> 0]
    IN IF config.HTTPPort = 0 /\ config.HTTPSPort = 0
       THEN [config EXCEPT !.HTTPPort = DefaultHTTPPort] ELSE config

\* The body names a docker repository with http_port and https_port zero;
\* the descriptor keeps this as history, next to the config that is stored.
ZeroPorts(q) ==
    q.type = "docker" /\ q.hasConfig /\ q.config.HTTPPort = 0 /\ q.config.HTTPSPort = 0

\* POST /api/v1/repositories; early as in StartRegistry. Besides the
\* response and the state, the result tells whether the descriptor was
\* written and what StartRegistry returned.
CreateRepository(S, q, early) ==
    LET config == IF q.type = "docker" THEN CreateConfig(q) ELSE NoStart.config
        descriptor == [type |-> q.type, config |-> config, zero |-> ZeroPorts(q)]
        created == RepoCreate(S.db, q.name, descriptor)
        started == StartRegistry(ApiManager([S EXCEPT !.db = created.db]),
                                 q.name, config, early)
        none == [created |-> FALSE, startErr |-> ""]
    IN IF q.name = ""
       THEN [resp |-> ApiResp(400, "Repository name is required"), st |-> S] @@ none
       ELSE IF q.type \notin {"docker", "raw"}
       THEN [resp |-> ApiResp(400, "Invalid repository type"), st |-> S] @@ none
       ELSE IF q.type = "docker"
               /\ IsPortInUse(ApiManager(S), config.HTTPPort, config.HTTPSPort)
       THEN [resp |-> ApiResp(409, "Port already in use"), st |-> S] @@ none
       ELSE IF created.err # ""
       THEN [resp |-> ApiResp(409, "Repository already exists"), st |-> S] @@ none
       ELSE IF q.type # "docker"
       THEN [resp |-> ApiResp(201, ""), st |-> [S EXCEPT !.db = created.db],
             created |-> TRUE, startErr |-> ""]
       ELSE IF started.err # ""
       THEN [resp |-> ApiResp(500, "Failed to start Docker registry"),
             st |-> [SetApiManager(S, started.st)
                        EXCEPT !.db = RepoDelete(created.db, q.name).db],
             created |-> TRUE, startErr |-> started.err]
       ELSE [resp |-> ApiResp(201, ""),
             st |-> [SetApiManager(S, started.st) EXCEPT !.db = created.db],
             created |-> TRUE, startErr |-> ""]

\* GET /api/v1/repositories/{name}
GetRepository(S, name) ==
    IF name \notin DOMAIN S.db THEN ApiResp(404, "Repository not found")
    ELSE ApiResp(200, "")

\* DELETE /api/v1/repositories/{name}: a failing StopRegistry is logged and
\* the deletion goes on.
DeleteRepository(S, name, outcome) ==
    IF name \notin DOMAIN S.db
    THEN [resp |-> ApiResp(404, "Repository not found"), st |-> S]
    ELSE LET stopped == IF S.db[name].type = "docker"
                        THEN SetApiManager(S, StopRegistry(ApiManager(S), name, outcome).st)
                        ELSE S
         IN [resp |-> ApiResp(204, ""),
             st |-> [stopped EXCEPT !.db = RepoDelete(S.db, name).db]]

\* repository.Manager.List: bbolt's ForEach walks the keys in byte order.
ListOrder == <<"repo1", "repo2">>

\* setupDockerRegistryOnMainPort: the first docker repository whose ports
\* are both zero is mounted under /v2/, and the loop ends there.
MainPortRepository(bucket) ==
    LET zero == {i \in 1..Len(ListOrder) :
                    /\ ListOrder[i] \in DOMAIN bucket
                    /\ bucket[ListOrder[i]].type = "docker"
                    /\ bucket[ListOrder[i]].config.HTTPPort = 0
                    /\ bucket[ListOrder[i]].config.HTTPSPort = 0}
    IN {ListOrder[i] : i \in {j \in zero : \A k \in zero : j <= k}}

\* Server.New over the data directory: a Manager without TLS config, the
\* routes, and the main-port mount.
New(bucket) ==
    [db |-> bucket, registries |-> EmptyMap, bootRegistries |-> EmptyMap,
     inst |-> EmptyMap, dockerManager |-> "api",
     mainRouter |-> MainPortRepository(bucket), phase |-> "new"]

\* A registry of this process listens on the address reg would bind.
AddrTaken(S, reg) ==
    \E id \in DOMAIN S.inst :
        S.inst[id].server = "listening" /\ Addr(S.inst[id]) = Addr(reg)

\* startExistingDockerRepositories from the i-th repository of the list on;
\* early tells for which of them the goroutine's failure is seen in time.
RECURSIVE StartExisting(_, _, _)
StartExisting(S, i, early) ==
    IF i > Len(ListOrder) THEN S
    ELSE LET name == ListOrder[i]
         IN IF \/ name \notin DOMAIN S.db
               \/ S.db[name].type # "docker"
               \/ (S.db[name].config.HTTPPort = 0 /\ S.db[name].config.HTTPSPort = 0)
            THEN StartExisting(S, i + 1, early)
            ELSE StartExisting(
                     SetBootManager(S, StartRegistry(BootManager(S), name,
                                                     S.db[name].config, name \in early).st),
                     i + 1, early)

\* The repositories whose address, under the Manager of Server.Start, is
\* that of a repository started before them: their goroutine fails to bind
\* if the earlier one has bound by then.
BootClashes(S) ==
    LET docker == {i \in 1..Len(ListOrder) :
                      /\ ListOrder[i] \in DOMAIN S.db
                      /\ S.db[ListOrder[i]].type = "docker"}
        reg(i) == NewRegistry(ListOrder[i], S.db[ListOrder[i]].config,
                              S.db[ListOrder[i]].config.HTTPSPort > 0)
    IN {ListOrder[i] : i \in {j \in docker :
                                 \E k \in docker : k < j /\ Addr(reg(k)) = Addr(reg(j))}}

\* The goroutine of Server.Start up to Serve: a new Manager with the TLS
\* config replaces the server's, and the persisted registries start in it.
StartServing(S, early) ==
    [StartExisting([S EXCEPT !.dockerManager = "boot", !.bootRegistries = EmptyMap],
                   1, early)
        EXCEPT !.phase = "serving"]

\* Server.shutdown: StopAll on the Manager the server points to.
Shutdown(S, outcome) ==
    LET stopped == IF S.dockerManager = "api"
                   THEN SetApiManager(S, StopAll(ApiManager(S), outcome).st)
                   ELSE SetBootManager(S, StopAll(BootManager(S), outcome).st)
    IN [stopped EXCEPT !.phase = "stopped"]

\* GET /v2/ on the server's own port: handleBase of the mounted registry, or
\* the router's 404.
MainGetBase(S) ==
    IF S.mainRouter # {} THEN [status |-> 200, version |-> "registry/2.0"]
    ELSE [status |-> 404, version |-> ""]

\* Registry objects no Manager holds and that neither listen nor are about
\* to are garbage.
CollectServer(S) ==
    LET ids == {S.registries[n] : n \in DOMAIN S.registries}
                   \cup {S.bootRegistries[n] : n \in DOMAIN S.bootRegistries}
    IN [S EXCEPT !.inst = [id \in {i \in DOMAIN S.inst :
                                      i \in ids \/ S.inst[i].server \in {"nil", "listening"}}
                              |-> S.inst[id]]]

InstallServer(S) ==
    /\ db' = S.db
    /\ registries' = S.registries
    /\ bootRegistries' = S.bootRegistries
    /\ inst' = S.inst
    /\ dockerManager' = S.dockerManager
    /\ mainRouter' = S.mainRouter
    /\ phase' = S.phase

\* The names whose registry listens, in either Manager.
Running(S) ==
    {n \in RepoNames :
        \/ n \in DOMAIN S.registries /\ S.inst[S.registries[n]].server = "listening"
        \/ n \in DOMAIN S.bootRegistries
               /\ S.inst[S.bootRegistries[n]].server = "listening"}

\* The goroutine of a registry being started would fail to bind: then, and
\* only then, StartRegistry may see the failure in time.
Early(S, M, name, config) ==
    IF AddrTaken(S, NewRegistry(name, config, config.HTTPSPort > 0 /\ M.tlsConfig))
    THEN BOOLEAN ELSE {FALSE}

ApiCreate ==
    /\ phase = "serving"
    /\ \E q \in CreateRequests :
         \E early \in Early(Server, ApiManager(Server), q.name, CreateConfig(q)) :
            LET h == CreateRepository(Server, q, early)
                st == CollectServer(h.st)
            IN /\ Cardinality(DOMAIN st.inst) <= MaxInst
               /\ InstallServer(st)
               /\ lastApi' = [op |-> "create", name |-> q.name,
                              status |-> h.resp.status, ran |-> {}]
    /\ UNCHANGED <<registryVars, tlsConfig, lastStart, storeVars, lockVars>>

ApiGet ==
    /\ phase = "serving"
    /\ \E name \in RepoNames : GetRepository(Server, name).status \in {200, 404}
    /\ UNCHANGED vars

ApiDelete ==
    /\ phase = "serving"
    /\ \E name \in RepoNames, outcome \in StopOutcomes :
         LET h == DeleteRepository(Server, name, outcome)
         IN /\ InstallServer(CollectServer(h.st))
            /\ lastApi' = [op |-> "delete", name |-> name, status |-> h.resp.status,
                           ran |-> {}]
    /\ UNCHANGED <<registryVars, tlsConfig, lastStart, storeVars, lockVars>>

\* The goroutine of StartRegistry runs Registry.Start: the address binds
\* unless a registry of the process listens on it.
RegistryListen ==
    /\ \E id \in DOMAIN inst :
         /\ inst[id].server = "nil"
         /\ InstallServer(CollectServer(
                [Server EXCEPT !.inst[id] =
                    Start(@, IF AddrTaken(Server, inst[id]) THEN "err" ELSE "ok")]))
    /\ UNCHANGED <<registryVars, tlsConfig, lastStart, storeVars, lastApi, lockVars>>

ServerStart ==
    /\ phase = "new"
    /\ \E early \in SUBSET BootClashes(Server) :
         /\ InstallServer(CollectServer(StartServing(Server, early)))
    /\ UNCHANGED <<registryVars, tlsConfig, lastStart, storeVars, lastApi, lockVars>>

ServerShutdown ==
    /\ phase = "serving"
    /\ LET M == IF dockerManager = "api" THEN registries ELSE bootRegistries
       IN InstallServer(CollectServer(Shutdown(Server, [n \in DOMAIN M |-> "ok"])))
    /\ lastApi' = [NoCall EXCEPT !.op = "shutdown", !.ran = Running(Server)]
    /\ UNCHANGED <<registryVars, tlsConfig, lastStart, storeVars, lockVars>>

\* NewRegistry in a new process: the manifest index and the upload sessions
\* start empty, the files of the store are those on disk.
RestartedRegistry(S) ==
    [S EXCEPT !.manifests = EmptyMap, !.uploads = {}, !.heap = EmptyMap]

\* The process ends, and with it every Manager and listener, and a new one
\* starts on the same data directory.
Restart ==
    /\ phase \in {"serving", "stopped"}
    /\ InstallServer(New(db))
    /\ Install(RestartedRegistry(Cur))
    /\ lastApi' = [NoCall EXCEPT !.op = "restart", !.ran = Running(Server)]
    /\ UNCHANGED <<req, acked, rejected, closed, tagPut, tlsConfig, lastStart, storeVars, lockVars>>

NextServer ==
    \/ ApiCreate
    \/ ApiGet
    \/ ApiDelete
    \/ RegistryListen
    \/ ServerStart
    \/ ServerShutdown
    \/ Restart

SpecServer == Init /\ [][NextServer]_vars

\* The registries that run: registered in a Manager and listening.
RunningRegistries(S) ==
    {S.registries[n] : n \in {m \in DOMAIN S.registries :
                                 S.inst[S.registries[m]].server = "listening"}}
        \cup {S.bootRegistries[n] : n \in {m \in DOMAIN S.bootRegistries :
                                 S.inst[S.bootRegistries[m]].server = "listening"}}

\* A non-zero port the body names is the one a running registry listens on.
PortInUse(S, q) ==
    /\ q.type = "docker" /\ q.hasConfig
    /\ \E id \in RunningRegistries(S) :
          Addr(S.inst[id]) \in {q.config.HTTPPort, q.config.HTTPSPort} \ {0}

\* C11: while the server serves, a POST for a docker repository whose
\* non-zero port is in use by a running registry is answered 409 "Port
\* already in use", and leaves the descriptor bucket and the registries as
\* they were.
PortInUseRefused ==
    phase = "serving" =>
        \A q \in CreateRequests, early \in BOOLEAN :
            PortInUse(Server, q) =>
                LET h == CreateRepository(Server, q, early)
                IN /\ h.resp = ApiResp(409, "Port already in use")
                   /\ h.st = Server

\* A registry listens on its HTTP port, and a POST naming the same HTTP port
\* is answered 409 with nothing changed.
PortInUseWitness ==
    /\ phase = "serving"
    /\ \E q \in CreateRequests :
         /\ PortInUse(Server, q)
         /\ q.name \notin DOMAIN db
         /\ CreateRepository(Server, q, FALSE).resp = ApiResp(409, "Port already in use")
         /\ CreateRepository(Server, q, FALSE).st = Server

\* C12: create-repository rollback: whenever a POST has written the docker
\* descriptor and StartRegistry then returns an error, the call is answered
\* 500, the descriptor is gone from the bucket again, and a GET of the name
\* that follows is answered 404.
CreateRollback ==
    phase = "serving" =>
        \A q \in CreateRequests, early \in BOOLEAN :
            LET h == CreateRepository(Server, q, early)
            IN (q.type = "docker" /\ h.created /\ h.startErr # "") =>
                  /\ h.resp.status = 500
                  /\ q.name \notin DOMAIN h.st.db
                  /\ GetRepository(h.st, q.name) = ApiResp(404, "Repository not found")

\* A POST has just been answered 500 after its registry failed to start: the
\* name has no descriptor although the request was well formed, the name
\* was free and no port was reported in use.
CreateRollbackWitness ==
    /\ lastApi.op = "create" /\ lastApi.status = 500
    /\ lastApi.name \notin DOMAIN db
    /\ GetRepository(Server, lastApi.name).status = 404

\* No Manager holds a registry of the name and no Registry object of the
\* name listens.
Stopped(S, name) ==
    /\ name \notin DOMAIN S.registries
    /\ name \notin DOMAIN S.bootRegistries
    /\ \A id \in DOMAIN S.inst :
          S.inst[id].repo = name => S.inst[id].server # "listening"

\* C13: a DELETE of a docker repository that is answered 204 leaves its
\* registry stopped, registered in no Manager and no longer listening on its
\* port, and its descriptor deleted.
DeleteStopsRegistry ==
    phase = "serving" =>
        \A name \in DOMAIN db :
            LET h == DeleteRepository(Server, name, "ok")
            IN (db[name].type = "docker" /\ h.resp.status = 204) =>
                  /\ Stopped(h.st, name)
                  /\ name \notin DOMAIN h.st.db

\* The registry of a docker repository listens, and a DELETE answered 204
\* stops it and deletes the descriptor.
DeleteStopsRegistryWitness ==
    /\ phase = "serving"
    /\ \E name \in DOMAIN db :
         LET h == DeleteRepository(Server, name, "ok")
         IN /\ db[name].type = "docker"
            /\ name \in Running(Server)
            /\ h.resp.status = 204
            /\ Stopped(h.st, name)
            /\ name \notin DOMAIN h.st.db

\* C14: a POST that creates a docker repository with http_port 0 and
\* https_port 0, its name free and no registry registered yet, is answered
\* 201 and the registry is then served on the server's own port: GET /v2/
\* there returns 200 with Docker-Distribution-API-Version registry/2.0.
MainPortServesZeroPorts ==
    phase = "serving" =>
        \A q \in CreateRequests :
            LET h == CreateRepository(Server, q, FALSE)
            IN (ZeroPorts(q) /\ q.name \notin DOMAIN db /\ DOMAIN registries = {}
                    /\ DOMAIN bootRegistries = {}) =>
                  /\ h.resp.status = 201
                  /\ MainGetBase(h.st) = [status |-> 200, version |-> "registry/2.0"]

\* A POST with both ports zero has just been answered 201 and its descriptor
\* is in the bucket.
MainPortServesZeroPortsWitness ==
    /\ lastApi.op = "create" /\ lastApi.status = 201
    /\ lastApi.name \in DOMAIN db
    /\ db[lastApi.name].zero

\* Once a repository created with both ports zero exists, GET /v2/ on the
\* server's own port is answered 200, also after a restart.
ZeroPortsMounted ==
    (phase = "serving" /\ \E n \in DOMAIN db : db[n].zero)
        => MainGetBase(Server).status = 200

\* C15: at most one docker repository occupies the main-port slot: in every
\* reachable state at most one registry is mounted under /v2/ on the
\* server's router, and once a repository registered with both ports zero
\* exists, a further POST with both ports zero is rejected.
OneMainPortRepository ==
    /\ Cardinality(mainRouter) <= 1
    /\ (phase = "serving" /\ \E n \in DOMAIN db : db[n].zero) =>
           \A q \in CreateRequests, early \in BOOLEAN :
               ZeroPorts(q) => CreateRepository(Server, q, early).resp.status >= 400

\* A repository registered with both ports zero exists and a POST with both
\* ports zero for another name is answered.
OneMainPortRepositoryWitness ==
    /\ phase = "serving"
    /\ \E n \in DOMAIN db : db[n].zero
    /\ \E q \in CreateRequests :
          /\ ZeroPorts(q) /\ q.name \notin DOMAIN db
          /\ CreateRepository(Server, q, FALSE).resp.status = 409

\* No registry is ever mounted on the server's router.
MainPortNeverMounted == mainRouter = {}

\* The process has restarted, Server.Start has restarted the persisted
\* registries and every goroutine has run Registry.Start; no API call has
\* been answered since.
Restarted ==
    /\ lastApi.op = "restart"
    /\ phase = "serving"
    /\ \A id \in DOMAIN inst : inst[id].server # "nil"

\* The persisted docker repositories with a non-zero port.
Persisted ==
    {n \in DOMAIN db : /\ db[n].type = "docker"
                       /\ (db[n].config.HTTPPort > 0 \/ db[n].config.HTTPSPort > 0)}

\* C16: after a process restart on the same data, every persisted docker
\* repository with a non-zero port has a running registry again.
RestartRestoresRegistries ==
    Restarted => \A n \in Persisted : n \in Running(Server)

\* The same for the repositories whose registry was running when the process
\* ended.
RestartRestoresRunning ==
    Restarted => \A n \in Persisted \cap lastApi.ran : n \in Running(Server)

\* A restart has brought a persisted repository's registry back.
RestartRestoresRegistriesWitness ==
    /\ Restarted
    /\ \E n \in Persisted \cap lastApi.ran : n \in Running(Server)

----------------------------------------------------------------------------
(* One registry's manifests and blobs across restarts of the process.      *)

NextRestart ==
    \/ Push
    \/ Pull
    \/ ServerStart
    \/ Restart

SpecRestart == Init /\ [][NextRestart]_vars

\* A restart leaves every blob retrievable by its digest, with the content
\* it had, and no manifest known.
RestartKeepsBlobsOnly ==
    [][Restart =>
          /\ \A n \in Repos, d \in DigestInputs :
                GetBlob(Cur, n, d).status = 200 => GetBlob(Cur, n, d)' = GetBlob(Cur, n, d)
          /\ \A n \in Repos, r \in References :
                GetManifest(Cur, n, r)' = writeError(404, "MANIFEST_UNKNOWN")]_vars

\* A manifest and a blob are served, and the process is about to restart.
RestartKeepsBlobsOnlyWitness ==
    /\ phase = "serving"
    /\ \E n \in Repos, r \in References : GetManifest(Cur, n, r).status = 200
    /\ \E n \in Repos, d \in DigestInputs : GetBlob(Cur, n, d).status = 200

----------------------------------------------------------------------------
(* Shutdown.                                                               *)

\* C17: on server shutdown every running registry is stopped: once shutdown
\* has completed, no Manager holds a registry and no registry, whether
\* started at boot or through the Control API, listens.
ShutdownStopsAll ==
    phase = "stopped" =>
        /\ DOMAIN registries = {}
        /\ DOMAIN bootRegistries = {}
        /\ \A id \in DOMAIN inst : inst[id].server # "listening"

\* Shutdown has completed and a registry that was running when it began
\* runs no more.
ShutdownStopsAllWitness ==
    /\ phase = "stopped"
    /\ lastApi.op = "shutdown"
    /\ DOMAIN bootRegistries = {}
    /\ \E n \in lastApi.ran : n \notin Running(Server)

----------------------------------------------------------------------------
(* Manifest records under repeated pushes.                                 *)

\* The pushes of a body that parses under a tag, and the pushes that replace
\* the body of such a push under the same tag.
TagPushes ==
    {q \in ManifestPutRequests : q.ref \in Tags /\ ~q.readErr /\ ~Unmarshal(q.body).err}

Replaces(q1) ==
    {q \in TagPushes : q.name = q1.name /\ q.ref = q1.ref /\ q.body # q1.body}

\* C21: in every state, after PUT of tag T with body B1 answered 201 and then
\* PUT of T with a different body B2 answered 201, GET of T returns 200 with
\* body B2, and GET by the digest of B1 still returns 200 with body exactly
\* B1: the record of the first push, unchanged.
TagUpdateKeepsOldRecord ==
    \A q1 \in TagPushes :
        \A q2 \in Replaces(q1) :
            LET h1 == handleManifestPut(Cur, q1)
                h2 == handleManifestPut(h1.st, q2)
                byTag == GetManifest(h2.st, q1.name, q1.ref)
                byOld == GetManifest(h2.st, q1.name, Digest(q1.body))
            IN (h1.resp.status = 201 /\ h2.resp.status = 201)
                   => /\ byTag.status = 200
                      /\ byTag.body = q2.body
                      /\ byOld.status = 200
                      /\ byOld.body = q1.body
                      /\ h2.st.manifests[q1.name][Digest(q1.body)]
                             = h1.st.manifests[q1.name][q1.ref]

\* C21 witness: tag T was last pushed with body B1, and a push of T with a
\* different body B2 is answered 201, after which T names B2 and the digest
\* of B1 names B1.
TagUpdateKeepsOldRecordWitness ==
    \E q1 \in TagPushes :
        \E q2 \in Replaces(q1) :
            LET p == tagPut[<<q1.name, q1.ref>>]
                h2 == handleManifestPut(Cur, q2)
            IN /\ p.kind = "put" /\ p.status = 201 /\ p.body = q1.body
               /\ GetManifest(Cur, q1.name, q1.ref).body = q1.body
               /\ h2.resp.status = 201
               /\ GetManifest(h2.st, q1.name, q1.ref).body = q2.body
               /\ GetManifest(h2.st, q1.name, Digest(q1.body)).body = q1.body
               /\ Digest(q1.body) # Digest(q2.body)

----------------------------------------------------------------------------
(* Deleting blobs.                                                         *)

\* C22: in every state, DELETE /v2/{name}/blobs/{digest} with a store that
\* works returns 202 and removes the blob when the repo holds it, and returns
\* 404 BLOB_UNKNOWN, changing nothing, when the repo holds no such blob.
BlobDeleteAnswers ==
    \A q \in BlobDeleteRequests :
        LET h == handleBlobDelete(Cur, q)
        IN q.io = "ok"
               => IF Exists(Cur.files, q.name, BlobPath(q.digest))
                  THEN /\ h.resp = Status(202)
                       /\ GetBlob(h.st, q.name, q.digest).status = 404
                  ELSE /\ h.resp = writeError(404, "BLOB_UNKNOWN")
                       /\ h.st = Cur

\* The half of C22 about a blob the repo holds.
BlobDeleteRemoves ==
    \A q \in BlobDeleteRequests :
        LET h == handleBlobDelete(Cur, q)
        IN (q.io = "ok" /\ Exists(Cur.files, q.name, BlobPath(q.digest)))
               => /\ h.resp = Status(202)
                  /\ GetBlob(h.st, q.name, q.digest).status = 404

\* C22 witness: a DELETE of a blob the repo does not hold is answered 202.
BlobDeleteAnswersWitness ==
    \E q \in BlobDeleteRequests :
        /\ q.io = "ok"
        /\ \E k \in DOMAIN files : k[1] = q.name /\ k[2] # BlobPath(q.digest)
        /\ ~Exists(Cur.files, q.name, BlobPath(q.digest))
        /\ handleBlobDelete(Cur, q).resp = Status(202)

----------------------------------------------------------------------------
(* Manifest PUT when the store fails.                                      *)

StoreFailures == StoreOutcomes \ {"ok"}

\* C30: in every state, a manifest PUT whose body parses and whose store
\* write fails is answered 500 MANIFEST_BLOB_UNKNOWN and leaves the index as
\* the same PUT with a working store leaves it: GET under the reference
\* returns 200 with the body, and so does GET under the digest of the body
\* when the reference is a tag or that digest.
FailedStoreKeepsBindings ==
    \A q \in ManifestPutRequests :
        \A o \in StoreFailures :
            LET h == handleManifestPut(Cur, WithIO(q, o))
                ok == handleManifestPut(Cur, WithIO(q, "ok"))
                byRef == GetManifest(h.st, q.name, q.ref)
                byDigest == GetManifest(h.st, q.name, Digest(q.body))
            IN (~q.readErr /\ ~Unmarshal(q.body).err)
                   => /\ h.resp = writeError(500, "MANIFEST_BLOB_UNKNOWN")
                      /\ h.st.manifests = ok.st.manifests
                      /\ byRef.status = 200
                      /\ byRef.body = q.body
                      /\ (q.ref \in Tags \cup {Digest(q.body)})
                             => /\ byDigest.status = 200
                                /\ byDigest.body = q.body

\* C30 witness: the last PUT of a tag was answered 500, the store holds no
\* file for the manifest, and GET returns the body under the tag and under
\* the digest.
FailedStoreKeepsBindingsWitness ==
    \E k \in DOMAIN tagPut :
        LET p == tagPut[k]
        IN /\ p.kind = "put" /\ p.status = 500
           /\ ~Exists(files, k[1], ManifestPath(Digest(p.body)))
           /\ GetManifest(Cur, k[1], k[2]).status = 200
           /\ GetManifest(Cur, k[1], k[2]).body = p.body
           /\ GetManifest(Cur, k[1], Digest(p.body)).body = p.body

----------------------------------------------------------------------------
(* Upload sessions and the repository that opened them.                    *)

\* The repository whose POST created the open session u.
SessionRepo(S, u) == S.heap[u].RepoName

\* C25: in every state, an open session is patched (202) and committed (201)
\* only by requests that name the repository whose POST created it, and the
\* blob a commit stores lies under that repository.
UploadBoundToRepo ==
    /\ \A q \in PatchRequests :
           (q.uuid \in uploads /\ FitsBuffer(Cur, q)
              /\ handleBlobUploadPatch(Cur, q).resp.status = 202)
               => q.name = SessionRepo(Cur, q.uuid)
    /\ \A q \in PutRequests :
           LET h == handleBlobUploadPut(Cur, q)
           IN (q.uuid \in uploads /\ FitsBuffer(Cur, q) /\ h.resp.status = 201)
                  => /\ q.name = SessionRepo(Cur, q.uuid)
                     /\ Exists(h.st.files, SessionRepo(Cur, q.uuid), BlobPath(q.digest))

\* C25 witness: a session opened under one repository and filled by PATCH is
\* committed by a PUT that names another repository, and the blob is stored
\* under the repository of the PUT only.
UploadBoundToRepoWitness ==
    \E q \in PutRequests :
        LET h == handleBlobUploadPut(Cur, q)
        IN /\ q.uuid \in uploads
           /\ q.name # SessionRepo(Cur, q.uuid)
           /\ q.uuid \in DOMAIN acked /\ acked[q.uuid] # <<>>
           /\ q.body = <<>>
           /\ h.resp.status = 201
           /\ Exists(h.st.files, q.name, BlobPath(q.digest))
           /\ ~Exists(h.st.files, SessionRepo(Cur, q.uuid), BlobPath(q.digest))

----------------------------------------------------------------------------
(* Which registries the Manager reports.                                   *)

\* The names GetRegistry reports a registry for.
Reported(M) == {name \in RepoNames : GetRegistry(M, name).exists}

\* What StartRegistry does to the names reported: a call that succeeds adds
\* its name, a call that fails changes nothing; a call for a name that is
\* reported fails and leaves the Registry registered under it in place.
StartReports(M) ==
    \A repo \in RepoNames, config \in Configs, early \in BOOLEAN :
        LET h == StartRegistry(M, repo, config, early)
        IN /\ Reported(h.st) = IF h.err = "" THEN Reported(M) \cup {repo} ELSE Reported(M)
           /\ \A name \in Reported(M) :
                  GetRegistry(h.st, name).registry = GetRegistry(M, name).registry
           /\ repo \in Reported(M) => h.err # "" /\ h.st = M

\* What StopRegistry does to the names reported.
StopReports(M) ==
    \A repoName \in RepoNames, outcome \in StopOutcomes :
        LET h == StopRegistry(M, repoName, outcome)
        IN /\ Reported(h.st) = IF h.err = "" THEN Reported(M) \ {repoName} ELSE Reported(M)
           /\ \A name \in Reported(h.st) :
                  GetRegistry(h.st, name).registry = GetRegistry(M, name).registry

\* What StopAll does to the names reported.
StopAllReports(M) ==
    \A outcome \in [DOMAIN M.registries -> StopOutcomes] :
        LET h == StopAll(M, outcome)
        IN /\ Reported(h.st) = IF h.err = "" THEN {} ELSE Reported(M)
           /\ \A name \in Reported(h.st) :
                  GetRegistry(h.st, name).registry = GetRegistry(M, name).registry

\* C23: in every state, GetRegistry reports a registry for a name exactly
\* when a StartRegistry for it has succeeded and no later StopRegistry for
\* it or StopAll has succeeded: a successful StartRegistry adds the name, a
\* successful StopRegistry removes it, a successful StopAll removes every
\* name, and a call that returns an error changes nothing, in particular a
\* StartRegistry for a name that has a registry.
ReportedWhileStarted ==
    /\ StartReports(Mgr)
    /\ StopReports(Mgr)
    /\ StopAllReports(Mgr)

\* The part of C23 about StartRegistry and StopRegistry.
ReportedUntilStopRegistry ==
    /\ StartReports(Mgr)
    /\ StopReports(Mgr)

\* C23 witness: a registry is reported and listening, and a StopAll that
\* returns an error leaves no registry reported.
ReportedWhileStartedWitness ==
    \E outcome \in [DOMAIN registries -> StopOutcomes] :
        LET h == StopAll(Mgr, outcome)
        IN /\ Reported(Mgr) # {}
           /\ h.err # ""
           /\ Reported(h.st) = {}

----------------------------------------------------------------------------
(* The default port of a docker repository.                                *)

\* json.Marshal of a DockerRepositoryConfig: a port that is zero is left
\* out (omitempty).
MarshalConfig(config) ==
    [k \in {"v1_enabled"}
            \cup (IF config.HTTPPort # 0 THEN {"http_port"} ELSE {})
            \cup (IF config.HTTPSPort # 0 THEN {"https_port"} ELSE {})
        |-> CASE k = "http_port" -> config.HTTPPort
              [] k = "https_port" -> config.HTTPSPort
              [] OTHER -> 0]

\* json.Unmarshal into a DockerRepositoryConfig: a key that is missing leaves
\* the field zero.
UnmarshalConfig(doc) ==
    [HTTPPort  |-> IF "http_port" \in DOMAIN doc THEN doc["http_port"] ELSE 0,
     HTTPSPort |-> IF "https_port" \in DOMAIN doc THEN doc["https_port"] ELSE 0]

\* The descriptor GET /api/v1/repositories/{name} writes when it answers
\* 200: the type and the config document CreateRepository persisted.
RepositoryBody(S, name) ==
    [type |-> S.db[name].type, config |-> MarshalConfig(S.db[name].config)]

\* POST bodies that name a docker repository with no config, or with a
\* config whose ports are both zero.
DefaultedRequests ==
    {q \in CreateRequests : q.type = "docker" /\ (~q.hasConfig \/ ZeroPorts(q))}

\* C24: in every state, a POST that names a docker repository with no
\* config, or with both ports zero, is answered 201 when the name is free,
\* port 5000 is not in use and the registry starts; whenever it is answered
\* 201, GET of the repository returns 200 with a descriptor whose config
\* carries http_port = 5000 and no https_port.
DefaultPortApplied ==
    \A q \in DefaultedRequests :
        \A early \in BOOLEAN :
            LET h == CreateRepository(Server, q, early)
                config == UnmarshalConfig(RepositoryBody(h.st, q.name).config)
            IN /\ (/\ q.name \notin DOMAIN db
                   /\ q.name \notin DOMAIN registries
                   /\ ~IsPortInUse(ApiManager(Server), DefaultHTTPPort, 0)
                   /\ ~early) => h.resp.status = 201
               /\ h.resp.status = 201
                      => /\ GetRepository(h.st, q.name).status = 200
                         /\ config.HTTPPort = DefaultHTTPPort
                         /\ config.HTTPSPort = 0

\* C24 witness: the server is serving and holds a repository; a POST with
\* no config and a POST with both ports zero are each answered 201, and the
\* descriptor GET returns carries http_port 5000.
DefaultPortAppliedWitness ==
    /\ phase = "serving"
    /\ db # EmptyMap
    /\ \E q1, q2 \in DefaultedRequests :
          LET h1 == CreateRepository(Server, q1, FALSE)
              h2 == CreateRepository(Server, q2, FALSE)
          IN /\ ~q1.hasConfig /\ ZeroPorts(q2)
             /\ h1.resp.status = 201 /\ h2.resp.status = 201
             /\ GetRepository(h1.st, q1.name).status = 200
             /\ RepositoryBody(h1.st, q1.name).config["http_port"] = DefaultHTTPPort
             /\ RepositoryBody(h2.st, q2.name).config["http_port"] = DefaultHTTPPort
             /\ "https_port" \notin DOMAIN RepositoryBody(h2.st, q2.name).config

----------------------------------------------------------------------------
(* The registry lock, step by step: a handler takes r.mu, runs the         *)
(* statements of its critical section one at a time, releases r.mu, and    *)
(* goes on to what it does outside the lock.                               *)

MaxBuffer == 3
LockUploads == 1

\* A lock that is granted also while another handler holds it.
LockNotExclusive(holder) == TRUE

\* r.mu.Lock(): granted when no handler holds the lock.
CanLock(holder) == holder = NoHolder

\* r.mu.RLock(): granted when no handler holds the lock for writing.
CanRLock(holder) == holder = NoHolder

\* The history of one upload id: how many PUTs were answered 201 (ok) and 500
\* (failed), how often the id was removed from the table, the error codes
\* the other PUTs were given, the chunks PATCH has acknowledged, and whether
\* a PUT has appended its body.
NoLog == [ok |-> 0, failed |-> 0, removed |-> 0, others |-> {}, chunks |-> <<>>,
          tainted |-> FALSE]

LockChunks == {<<"a">>, <<"b", "a">>}
LockDigests == {Digest(<<"a">>), Digest(<<"a", "a">>), Digest(<<"b", "a">>)}

LockPatchRequests ==
    {[BaseReq EXCEPT !.op = "BlobUploadPatch", !.name = "r1", !.uuid = u, !.body = b] :
        u \in 1..LockUploads, b \in LockChunks}

LockPutRequests ==
    {[BaseReq EXCEPT !.op = "BlobUploadPut", !.name = "r1", !.uuid = u, !.body = b,
                     !.digest = d] :
        u \in 1..LockUploads, b \in {<<>>, <<"a">>}, d \in LockDigests}

LockDeleteRequests ==
    {[BaseReq EXCEPT !.op = "BlobUploadDelete", !.name = "r1", !.uuid = u] :
        u \in 1..LockUploads}

\* The positions at which a handler has not yet appended its body.
BeforeAppend == {"lock", "load", "store", "lookup", "check"}

RECURSIVE Unappended(_, _, _)
Unappended(rq, cs, u) ==
    IF cs = {} THEN 0
    ELSE LET c == CHOOSE x \in cs : TRUE
         IN (IF rq[c].pc \in BeforeAppend /\ rq[c].uuid = u THEN Len(rq[c].body) ELSE 0)
                + Unappended(rq, cs \ {c}, u)

\* The buffer stays within MaxBuffer once q and the handlers in flight have
\* appended.
LockFits(q) ==
    q.uuid \in DOMAIN heap
        => Len(heap[q.uuid].Data) + Unappended(req, Clients, q.uuid) + Len(q.body)
               <= MaxBuffer

Goto(c, q, pc) == req' = [req EXCEPT ![c] = [q EXCEPT !.pc = pc]]

Logged(u, entry) == log' = IF u \in DOMAIN log THEN [log EXCEPT ![u] = entry] ELSE log

\* POST: the insert under the lock.
LockPost(c) ==
    /\ req[c].pc = "idle"
    /\ CanLock(mu)
    /\ nextUUID <= LockUploads
    /\ \E q \in ConcPostRequests : Install(handleBlobUploadPost(Cur, q).st)
    /\ log' = With(log, nextUUID, NoLog)
    /\ UNCHANGED <<req, acked, rejected, closed, tagPut, managerVars, storeVars,
                   serverVars, mu, local>>

\* PATCH: Lock, look the session up, Unlock; then the body is read.
LockPatchLookup(c) ==
    /\ req[c].pc = "idle"
    /\ CanLock(mu)
    /\ \E q \in LockPatchRequests :
          /\ LockFits(q)
          /\ IF PatchLookup(Cur, q) THEN Goto(c, q, "lock") ELSE UNCHANGED req
    /\ UNCHANGED <<manifests, uploads, heap, nextUUID, files, acked, rejected, closed,
                   tagPut, managerVars, storeVars, serverVars, lockVars>>

\* PATCH: Lock before the append.
LockPatchLock(c) ==
    /\ req[c].pc = "lock"
    /\ CanLock(mu)
    /\ mu' = c
    /\ Goto(c, req[c], "load")
    /\ UNCHANGED <<manifests, uploads, heap, nextUUID, files, acked, rejected, closed,
                   tagPut, managerVars, storeVars, serverVars, local, log>>

\* PATCH: append reads upload.Data ...
LockPatchLoad(c) ==
    /\ req[c].pc = "load"
    /\ local' = [local EXCEPT ![c].buf = heap[req[c].uuid].Data]
    /\ Goto(c, req[c], "store")
    /\ UNCHANGED <<manifests, uploads, heap, nextUUID, files, acked, rejected, closed,
                   tagPut, managerVars, storeVars, serverVars, mu, log>>

\* ... and assigns the longer slice to upload.Data, and its length to
\* upload.Size.
LockPatchStore(c) ==
    /\ req[c].pc = "store"
    /\ Install(PatchAppend([Cur EXCEPT !.heap[req[c].uuid].Data = local[c].buf], req[c]))
    /\ Goto(c, req[c], "unlock")
    /\ UNCHANGED <<acked, rejected, closed, tagPut, managerVars, storeVars, serverVars,
                   lockVars>>

\* PATCH: Unlock.
LockPatchUnlock(c) ==
    /\ req[c].pc = "unlock"
    /\ req[c].op = "BlobUploadPatch"
    /\ mu' = NoHolder
    /\ Goto(c, req[c], "respond")
    /\ UNCHANGED <<manifests, uploads, heap, nextUUID, files, acked, rejected, closed,
                   tagPut, managerVars, storeVars, serverVars, local, log>>

\* PATCH: the 202 response acknowledges the chunk.
LockPatchRespond(c) ==
    /\ req[c].pc = "respond"
    /\ PatchRespond(Cur, req[c]).status = 202
    /\ req' = [req EXCEPT ![c] = Idle]
    /\ local' = [local EXCEPT ![c] = NoLocal]
    /\ Logged(req[c].uuid, [log[req[c].uuid] EXCEPT !.chunks = Append(@, req[c].body)])
    /\ Install(Collect(Cur, Held(req')))
    /\ UNCHANGED <<acked, rejected, closed, tagPut, managerVars, storeVars, serverVars, mu>>

\* PUT: Lock.
LockPutLock(c) ==
    /\ req[c].pc = "idle"
    /\ CanLock(mu)
    /\ \E q \in LockPutRequests :
          /\ LockFits(q)
          /\ Goto(c, q, "lookup")
    /\ mu' = c
    /\ UNCHANGED <<manifests, uploads, heap, nextUUID, files, acked, rejected, closed,
                   tagPut, managerVars, storeVars, serverVars, local, log>>

\* PUT: look the session up.
LockPutLookup(c) ==
    /\ req[c].pc = "lookup"
    /\ IF req[c].uuid \in uploads
       THEN /\ Goto(c, req[c], "check")
            /\ UNCHANGED local
       ELSE /\ Goto(c, req[c], "unlock")
            /\ local' = [local EXCEPT ![c].resp = PutLocked(Cur, req[c]).resp,
                                      ![c].next = "done"]
    /\ UNCHANGED <<manifests, uploads, heap, nextUUID, files, acked, rejected, closed,
                   tagPut, managerVars, storeVars, serverVars, mu, log>>

\* PUT: append the remaining data to the Upload the handler holds and
\* compare the digests.
LockPutCheck(c) ==
    /\ req[c].pc = "check"
    /\ LET q == req[c]
           l == PutLocked([Cur EXCEPT !.uploads = @ \cup {q.uuid}], q)
       IN /\ heap' = l.st.heap
          /\ Logged(q.uuid, [log[q.uuid] EXCEPT !.tainted = @ \/ l.st.heap # heap])
          /\ IF l.next = "store"
             THEN /\ Goto(c, q, "remove")
                  /\ UNCHANGED local
             ELSE /\ Goto(c, q, "unlock")
                  /\ local' = [local EXCEPT ![c].resp = l.resp, ![c].next = "done"]
    /\ UNCHANGED <<manifests, uploads, nextUUID, files, acked, rejected, closed,
                   tagPut, managerVars, storeVars, serverVars, mu>>

\* PUT: delete(r.uploads, uploadUUID).
LockPutRemove(c) ==
    /\ req[c].pc = "remove"
    /\ uploads' = uploads \ {req[c].uuid}
    /\ Logged(req[c].uuid, [log[req[c].uuid] EXCEPT
                               !.removed = @ + (IF req[c].uuid \in uploads THEN 1 ELSE 0)])
    /\ local' = [local EXCEPT ![c].next = "store"]
    /\ Goto(c, req[c], "unlock")
    /\ UNCHANGED <<manifests, heap, nextUUID, files, acked, rejected, closed,
                   tagPut, managerVars, storeVars, serverVars, mu>>

\* PUT: Unlock; a handler that was refused writes its error.
LockPutUnlock(c) ==
    /\ req[c].pc = "unlock"
    /\ req[c].op = "BlobUploadPut"
    /\ mu' = NoHolder
    /\ IF local[c].next = "store"
       THEN /\ Goto(c, req[c], "putstore")
            /\ UNCHANGED <<local, log, heap>>
       ELSE /\ req' = [req EXCEPT ![c] = Idle]
            /\ local' = [local EXCEPT ![c] = NoLocal]
            /\ Logged(req[c].uuid, [log[req[c].uuid] EXCEPT
                                       !.others = @ \cup {local[c].resp.code}])
            /\ heap' = Collect(Cur, Held(req')).heap
    /\ UNCHANGED <<manifests, uploads, nextUUID, files, acked, rejected, closed,
                   tagPut, managerVars, storeVars, serverVars>>

\* PUT: store upload.Data outside the lock and answer.
LockPutStore(c) ==
    /\ req[c].pc = "putstore"
    /\ req' = [req EXCEPT ![c] = Idle]
    /\ local' = [local EXCEPT ![c] = NoLocal]
    /\ \E o \in StoreOutcomes :
          LET h == PutStore(Cur, WithIO(req[c], o))
          IN /\ Install(Collect(h.st, Held(req')))
             /\ Logged(req[c].uuid,
                       IF h.resp.status = 201
                       THEN [log[req[c].uuid] EXCEPT !.ok = @ + 1]
                       ELSE [log[req[c].uuid] EXCEPT !.failed = @ + 1])
    /\ UNCHANGED <<acked, rejected, closed, tagPut, managerVars, storeVars, serverVars, mu>>

\* DELETE of an upload: the delete under the lock.
LockUploadDelete(c) ==
    /\ req[c].pc = "idle"
    /\ CanLock(mu)
    /\ \E q \in LockDeleteRequests :
          /\ Install(Collect(handleBlobUploadDelete(Cur, q).st, Held(req)))
          /\ Logged(q.uuid, [log[q.uuid] EXCEPT
                                !.removed = @ + (IF q.uuid \in uploads THEN 1 ELSE 0)])
    /\ UNCHANGED <<req, acked, rejected, closed, tagPut, managerVars, storeVars,
                   serverVars, mu, local>>

NextUploadLock ==
    \E c \in Clients :
        \/ LockPost(c)
        \/ LockPatchLookup(c)
        \/ LockPatchLock(c)
        \/ LockPatchLoad(c)
        \/ LockPatchStore(c)
        \/ LockPatchUnlock(c)
        \/ LockPatchRespond(c)
        \/ LockPutLock(c)
        \/ LockPutLookup(c)
        \/ LockPutCheck(c)
        \/ LockPutRemove(c)
        \/ LockPutUnlock(c)
        \/ LockPutStore(c)
        \/ LockUploadDelete(c)

SpecUploadLock == Init /\ [][NextUploadLock]_vars

\* The PUT handlers in flight that have left the critical section on their
\* way to the store of upload u.
Committing(u) ==
    {c \in Clients : /\ req[c].op = "BlobUploadPut" /\ req[c].uuid = u
                     /\ \/ req[c].pc = "putstore"
                        \/ req[c].pc = "unlock" /\ local[c].next = "store"}

\* C26: in every state and for every upload id, at most one PUT has passed
\* the critical section (it is on its way to the store, or was answered 201,
\* or 500 when the store failed), so at most one PUT is answered 201; the id
\* was removed from the table at most once, and exactly once when a PUT
\* has passed; every other PUT was answered BLOB_UPLOAD_UNKNOWN or
\* DIGEST_INVALID.
CommitOnce ==
    \A u \in DOMAIN log :
        /\ log[u].ok <= 1
        /\ Cardinality(Committing(u)) + log[u].ok + log[u].failed <= 1
        /\ log[u].removed <= 1
        /\ Cardinality(Committing(u)) + log[u].ok + log[u].failed = 1
               => log[u].removed = 1 /\ u \notin uploads
        /\ log[u].others \subseteq {"BLOB_UPLOAD_UNKNOWN", "DIGEST_INVALID"}

\* C26 witness: while one PUT that has removed the session is on its way to
\* the store, another PUT for the same session has taken the lock and found
\* the session gone.
CommitOnceWitness ==
    \E c1, c2 \in Clients :
        /\ c1 # c2
        /\ req[c1].pc = "putstore"
        /\ req[c2].op = "BlobUploadPut" /\ req[c2].uuid = req[c1].uuid
        /\ req[c2].pc = "unlock"
        /\ local[c2].resp.code = "BLOB_UPLOAD_UNKNOWN"
        /\ log[req[c1].uuid].removed = 1
        /\ "DIGEST_INVALID" \in log[req[c1].uuid].others

\* The chunks appended to upload u by PATCH handlers that have not yet
\* written their response, in some order.
RECURSIVE Unacked(_, _)
Unacked(cs, u) ==
    IF cs = {} THEN <<>>
    ELSE LET c == CHOOSE x \in cs : TRUE
         IN (IF /\ req[c].op = "BlobUploadPatch" /\ req[c].uuid = u
                /\ req[c].pc \in {"unlock", "respond"}
             THEN <<req[c].body>> ELSE <<>>) \o Unacked(cs \ {c}, u)

RECURSIVE Concat(_)
Concat(chunks) == IF chunks = <<>> THEN <<>> ELSE Head(chunks) \o Concat(Tail(chunks))

\* The concatenations of the chunks, each whole and once, in every order.
Orderings(chunks) ==
    LET n == Len(chunks)
    IN {Concat([i \in 1..n |-> chunks[f[i]]]) :
           f \in {g \in [1..n -> 1..n] : \A i, j \in 1..n : g[i] = g[j] => i = j}}

\* C27: in every state, the buffer of an open upload that only PATCH has
\* appended to is the concatenation, in some order, of the chunks PATCH has
\* acknowledged and the chunks whose PATCH has appended and is about to
\* answer, each whole and exactly once.
PatchesSerialized ==
    \A u \in uploads :
        ~log[u].tainted
            => heap[u].Data \in Orderings(log[u].chunks \o Unacked(Clients, u))

\* C27 witness: two PATCHes to one open upload were in flight together; both
\* have appended, and the buffer holds the two chunks one after the other.
PatchesSerializedWitness ==
    \E c1, c2 \in Clients :
        /\ c1 # c2
        /\ req[c1].op = "BlobUploadPatch" /\ req[c2].op = "BlobUploadPatch"
        /\ req[c1].uuid = req[c2].uuid /\ req[c1].uuid \in uploads
        /\ req[c1].pc = "respond" /\ req[c2].pc = "respond"
        /\ req[c1].body # req[c2].body
        /\ heap[req[c1].uuid].Data = req[c1].body \o req[c2].body

----------------------------------------------------------------------------
(* The manifest handlers under the lock, step by step.                     *)

IndexBodies == {b \in ManifestBodies : ~Unmarshal(b).err}

IndexReferences == Tags \cup {Digest(b) : b \in IndexBodies}

\* Pushes by tag of bodies that parse, to one repository.
IndexPutRequests ==
    {[BaseReq EXCEPT !.op = "ManifestPut", !.name = "r1", !.ref = r, !.body = b,
                     !.ctype = MediaTypeDockerSchema2Manifest] :
        r \in Tags, b \in IndexBodies}

IndexDeleteRequests ==
    {[BaseReq EXCEPT !.op = "ManifestDelete", !.name = "r1", !.ref = r] :
        r \in IndexReferences}

\* The Manifest a PUT builds before it takes the lock.
ManifestOf(q) == [MediaType |-> StoredMediaType(q, Unmarshal(q.body)), Raw |-> q.body]

\* PUT manifest, first insert: r.manifests[name][reference] = &manifest,
\* after the map of the repository was made if it was missing.
BindReference(S, q, manifest) ==
    LET repoManifests == IF q.name \in DOMAIN S.manifests
                         THEN S.manifests[q.name] ELSE EmptyMap
    IN [S EXCEPT !.manifests = With(@, q.name, With(repoManifests, q.ref, manifest))]

\* PUT manifest: Lock.
IndexPutLock(c) ==
    /\ req[c].pc = "idle"
    /\ CanLock(mu)
    /\ mu' = c
    /\ \E q \in IndexPutRequests : Goto(c, q, "bindRef")
    /\ UNCHANGED <<manifests, uploads, heap, nextUUID, files, acked, rejected, closed,
                   tagPut, managerVars, storeVars, serverVars, local, log>>

\* PUT manifest: bind the reference.
IndexPutBindRef(c) ==
    /\ req[c].pc = "bindRef"
    /\ Install(BindReference(Cur, req[c], ManifestOf(req[c])))
    /\ Goto(c, req[c], "bindDigest")
    /\ UNCHANGED <<acked, rejected, closed, tagPut, managerVars, storeVars, serverVars,
                   lockVars>>

\* PUT manifest: bind the digest when the reference is a tag.
IndexPutBindDigest(c) ==
    /\ req[c].pc = "bindDigest"
    /\ Install(ManifestPutLocked(Cur, req[c], ManifestOf(req[c]), Digest(req[c].body)))
    /\ Goto(c, req[c], "unlock")
    /\ UNCHANGED <<acked, rejected, closed, tagPut, managerVars, storeVars, serverVars,
                   lockVars>>

\* PUT manifest: Unlock.
IndexPutUnlock(c) ==
    /\ req[c].pc = "unlock"
    /\ req[c].op = "ManifestPut"
    /\ mu' = NoHolder
    /\ Goto(c, req[c], "mstore")
    /\ UNCHANGED <<manifests, uploads, heap, nextUUID, files, acked, rejected, closed,
                   tagPut, managerVars, storeVars, serverVars, local, log>>

\* PUT manifest: the store of the body, and the response.
IndexPutStore(c) ==
    /\ req[c].pc = "mstore"
    /\ req' = [req EXCEPT ![c] = Idle]
    /\ \E o \in StoreOutcomes :
          LET h == ManifestPutStore(Cur, WithIO(req[c], o), Digest(req[c].body))
          IN /\ Install(h.st)
             /\ tagPut' = [tagPut EXCEPT ![<<req[c].name, req[c].ref>>] =
                                             PutEvent(req[c], h.resp.status)]
    /\ UNCHANGED <<acked, rejected, closed, managerVars, storeVars, serverVars, lockVars>>

\* DELETE manifest: Lock, with the Unlock deferred to the return.
IndexDeleteLock(c) ==
    /\ req[c].pc = "idle"
    /\ CanLock(mu)
    /\ mu' = c
    /\ \E q \in IndexDeleteRequests : Goto(c, q, "unbind")
    /\ UNCHANGED <<manifests, uploads, heap, nextUUID, files, acked, rejected, closed,
                   tagPut, managerVars, storeVars, serverVars, local, log>>

\* DELETE manifest: look the reference up and delete it from the index.
IndexDeleteUnbind(c) ==
    /\ req[c].pc = "unbind"
    /\ LET h == handleManifestDelete(Cur, req[c])
       IN /\ manifests' = h.st.manifests
          /\ local' = [local EXCEPT ![c].resp = h.resp]
          /\ Goto(c, req[c], IF h.resp.status = 202 THEN "mdelete" ELSE "return")
    /\ UNCHANGED <<uploads, heap, nextUUID, files, acked, rejected, closed,
                   tagPut, managerVars, storeVars, serverVars, mu, log>>

\* DELETE manifest: r.storage.Delete, its error dropped.
IndexDeleteStore(c) ==
    /\ req[c].pc = "mdelete"
    /\ \E o \in DeleteOutcomes :
          files' = Delete(files, req[c].name, ManifestPath(req[c].ref), o).files
    /\ Goto(c, req[c], "return")
    /\ UNCHANGED <<manifests, uploads, heap, nextUUID, acked, rejected, closed,
                   tagPut, managerVars, storeVars, serverVars, lockVars>>

\* DELETE manifest: the handler returns and the deferred Unlock runs.
IndexDeleteReturn(c) ==
    /\ req[c].pc = "return"
    /\ mu' = NoHolder
    /\ req' = [req EXCEPT ![c] = Idle]
    /\ local' = [local EXCEPT ![c] = NoLocal]
    /\ UNCHANGED <<manifests, uploads, heap, nextUUID, files, acked, rejected, closed,
                   tagPut, managerVars, storeVars, serverVars, log>>

\* GET manifest, tags list and catalog: the whole handler under RLock.
IndexRead(c) ==
    /\ req[c].pc = "idle"
    /\ CanRLock(mu)
    /\ \E q \in {r \in PullRequests : r.op \in {"ManifestGet", "TagsList", "Catalog"}} :
          Install(ServeHTTP(Cur, q).st)
    /\ UNCHANGED <<req, acked, rejected, closed, tagPut, managerVars, storeVars,
                   serverVars, lockVars>>

NextIndexLock ==
    \E c \in Clients :
        \/ IndexPutLock(c)
        \/ IndexPutBindRef(c)
        \/ IndexPutBindDigest(c)
        \/ IndexPutUnlock(c)
        \/ IndexPutStore(c)
        \/ IndexDeleteLock(c)
        \/ IndexDeleteUnbind(c)
        \/ IndexDeleteStore(c)
        \/ IndexDeleteReturn(c)
        \/ IndexRead(c)

SpecIndexLock == Init /\ [][NextIndexLock]_vars

\* The positions at which the next statement of a handler is a call of the
\* Blob Store: the store of a committed blob, the store of a manifest, and
\* the delete of a manifest file.
StoreCalls == {"putstore", "mstore", "mdelete"}

\* C28: in every state, a handler whose next statement is a call of the Blob
\* Store does not hold the registry lock.
NoStoreUnderLock ==
    \A c \in Clients : req[c].pc \in StoreCalls => mu # c

\* The part of C28 about manifest PUT and blob commit.
StoresAfterUnlock ==
    \A c \in Clients : req[c].pc \in {"putstore", "mstore"} => mu # c

\* C28 witness: a manifest DELETE is about to call the store's Delete, on a
\* file that exists, while it holds the lock.
NoStoreUnderLockWitness ==
    \E c \in Clients :
        /\ req[c].op = "ManifestDelete"
        /\ req[c].pc = "mdelete"
        /\ mu = c
        /\ Exists(files, req[c].name, ManifestPath(req[c].ref))

\* A tag PUT has bound the tag and not yet the digest.
HalfBound(c) == req[c].op = "ManifestPut" /\ req[c].pc = "bindDigest"

\* C29: in every state in which a manifest GET, a tags list or a catalog
\* can take the read lock, no tag PUT is between its two inserts.
IndexInsertsAtomic ==
    CanRLock(mu) => \A c \in Clients : ~HalfBound(c)

\* C29 witness: a tag PUT has rebound the tag to a body whose digest is not
\* bound yet, another handler is in flight, and the lock is held.
IndexInsertsAtomicWitness ==
    \E c1, c2 \in Clients :
        /\ c1 # c2
        /\ HalfBound(c1)
        /\ req[c2].pc # "idle"
        /\ mu = c1
        /\ GetManifest(Cur, req[c1].name, req[c1].ref).body = req[c1].body
        /\ GetManifest(Cur, req[c1].name, Digest(req[c1].body)).status = 404
        /\ ListTags(Cur, req[c1].name) # {}

----------------------------------------------------------------------------
(* What a manifest DELETE leaves alone.                                    *)

\* C31: in every state, a DELETE of a reference X that repo R binds is
\* answered 202 whatever the store's Delete does, also when the store holds
\* no file manifests/X; it removes the binding of X in R, and every other
\* binding of R and every binding of every other repo is as before.
ManifestDeleteFrame ==
    \A q \in ManifestDeleteRequests :
        LET h == handleManifestDelete(Cur, q)
        IN (q.name \in DOMAIN manifests /\ q.ref \in DOMAIN manifests[q.name])
               => /\ h.resp = Status(202)
                  /\ DOMAIN h.st.manifests = DOMAIN manifests
                  /\ DOMAIN h.st.manifests[q.name] = (DOMAIN manifests[q.name]) \ {q.ref}
                  /\ \A x \in DOMAIN h.st.manifests[q.name] :
                         h.st.manifests[q.name][x] = manifests[q.name][x]
                  /\ \A n \in (DOMAIN manifests) \ {q.name} :
                         h.st.manifests[n] = manifests[n]

\* C31 witness: a tag whose record is also bound by digest, in a state where
\* another repo holds bindings and the store has no file under the tag, is
\* deleted with 202 and the digest binding stays.
ManifestDeleteFrameWitness ==
    \E q \in ManifestDeleteRequests :
        LET h == handleManifestDelete(Cur, q)
        IN /\ q.ref \in Tags
           /\ q.name \in DOMAIN manifests /\ q.ref \in DOMAIN manifests[q.name]
           /\ \E n \in (DOMAIN manifests) \ {q.name} : DOMAIN manifests[n] # {}
           /\ ~Exists(files, q.name, ManifestPath(q.ref))
           /\ h.resp = Status(202)
           /\ GetManifest(h.st, q.name, Digest(manifests[q.name][q.ref].Raw)).status = 200
           /\ GetManifest(h.st, q.name, q.ref).status = 404

----------------------------------------------------------------------------
(* The Range header of an upload session.                                  *)

\* The Range header <<n - 1>> for a buffer of n bytes.
RangeOf(data) == <<Len(data) - 1>>

\* C32: in every state and for every open session, the recorded size equals
\* the length of the buffer; the status GET answers with Range bytes=0-(n-1)
\* for the n bytes of the buffer, and a PATCH answered 202 does so for the
\* buffer it leaves.
RangeIsBufferLength ==
    /\ \A u \in uploads : heap[u].Size = Len(heap[u].Data)
    /\ \A q \in UploadGetRequests :
           q.uuid \in uploads
               => handleBlobUploadGet(Cur, q).resp.range = RangeOf(heap[q.uuid].Data)
    /\ \A q \in PatchRequests :
           LET h == handleBlobUploadPatch(Cur, q)
           IN (q.uuid \in uploads /\ FitsBuffer(Cur, q) /\ h.resp.status = 202)
                  => h.resp.range = RangeOf(h.st.heap[q.uuid].Data)

\* The part of C32 about sessions no PUT was refused on.
RangeIsBufferLengthUnlessRejected ==
    /\ \A u \in uploads \ rejected : heap[u].Size = Len(heap[u].Data)
    /\ \A q \in UploadGetRequests :
           q.uuid \in uploads \ rejected
               => handleBlobUploadGet(Cur, q).resp.range = RangeOf(heap[q.uuid].Data)
    /\ \A q \in PatchRequests :
           LET h == handleBlobUploadPatch(Cur, q)
           IN (q.uuid \in uploads \ rejected /\ FitsBuffer(Cur, q) /\ h.resp.status = 202)
                  => h.resp.range = RangeOf(h.st.heap[q.uuid].Data)

\* C32 witness: a session a PUT was refused on with DIGEST_INVALID holds more
\* bytes than its recorded size, and the status GET reports the smaller
\* number.
RangeIsBufferLengthWitness ==
    \E q \in UploadGetRequests :
        /\ q.uuid \in uploads \cap rejected
        /\ heap[q.uuid].Size < Len(heap[q.uuid].Data)
        /\ handleBlobUploadGet(Cur, q).resp.status = 204
        /\ handleBlobUploadGet(Cur, q).resp.range # RangeOf(heap[q.uuid].Data)

----------------------------------------------------------------------------
(* Blob commit when the store fails.                                       *)

\* PUTs that name upload u and carry a digest.
Retries(u) == {q \in PutRequests : q.uuid = u /\ q.digest # EmptyStr}

\* C33: in every state, a PUT on an open session whose digest check passes
\* and whose store then fails is answered 500 BLOB_UPLOAD_INVALID; at
\* blobs/<digest> there is then no file, or the complete file that was there
\* before; the session is gone, and every further PUT on the upload id is
\* answered 404 BLOB_UPLOAD_UNKNOWN.
FailedCommit ==
    \A q \in PutRequests :
        \A o \in StoreFailures :
            LET h == handleBlobUploadPut(Cur, WithIO(q, o))
                k == <<q.name, BlobPath(q.digest)>>
            IN (/\ q.digest # EmptyStr /\ q.uuid \in uploads /\ FitsBuffer(Cur, q)
                /\ PutLocked(Cur, q).next = "store")
                   => /\ h.resp = writeError(500, "BLOB_UPLOAD_INVALID")
                      /\ \/ k \notin DOMAIN h.st.files
                         \/ k \in DOMAIN files /\ h.st.files[k] = files[k]
                      /\ q.uuid \notin h.st.uploads
                      /\ \A r \in Retries(q.uuid) :
                             handleBlobUploadPut(h.st, r).resp
                                 = writeError(404, "BLOB_UPLOAD_UNKNOWN")

\* C33 witness: a session filled by PATCH passes the digest check, the copy
\* into the store fails, the answer is 500, no file is left and the same PUT
\* sent again is answered 404.
FailedCommitWitness ==
    \E q \in PutRequests :
        LET h == handleBlobUploadPut(Cur, WithIO(q, "write_err"))
        IN /\ q.digest # EmptyStr /\ q.uuid \in uploads /\ FitsBuffer(Cur, q)
           /\ q.uuid \in DOMAIN acked /\ acked[q.uuid] # <<>>
           /\ PutLocked(Cur, q).next = "store"
           /\ h.resp.status = 500
           /\ ~Exists(h.st.files, q.name, BlobPath(q.digest))
           /\ handleBlobUploadPut(h.st, q).resp.status = 404

----------------------------------------------------------------------------
(* The buffer after a PUT that is refused for its digest.                  *)

\* The PUT sent again with the digest of the earlier buffer plus its body.
RetryWithDigest(q, before) == [q EXCEPT !.digest = Digest(before \o q.body)]

\* C34: in every state, a PUT on an open session that is answered 400
\* DIGEST_INVALID leaves the session's buffer as it was before the request,
\* and the same body sent again with the digest of that buffer plus the body
\* is answered 201.
RefusedPutKeepsBuffer ==
    \A q \in PutRequests :
        LET h == handleBlobUploadPut(Cur, q)
            before == heap[q.uuid].Data
        IN (/\ q.uuid \in uploads /\ FitsBuffer(Cur, q)
            /\ h.resp = writeError(400, "DIGEST_INVALID"))
               => /\ h.st.heap[q.uuid].Data = before
                  /\ handleBlobUploadPut(h.st, RetryWithDigest(q, before)).resp.status = 201

\* What the handler does instead: a PUT refused inside the critical section
\* has appended the body it read, and the session stays open.
RefusedPutAppendsBody ==
    \A q \in PutRequests :
        LET h == handleBlobUploadPut(Cur, q)
        IN (/\ q.uuid \in uploads /\ FitsBuffer(Cur, q) /\ q.digest # EmptyStr
            /\ h.resp = writeError(400, "DIGEST_INVALID"))
               => /\ q.uuid \in h.st.uploads
                  /\ h.st.heap[q.uuid].Data
                        = heap[q.uuid].Data \o (IF ContentLength(q) > 0 THEN q.body ELSE <<>>)

\* C34 witness: an open session and a PUT with a body of known length that is
\* refused for its digest.
RefusedPutKeepsBufferWitness ==
    \E q \in PutRequests :
        /\ q.uuid \in uploads /\ FitsBuffer(Cur, q)
        /\ ContentLength(q) > 0
        /\ handleBlobUploadPut(Cur, q).resp = writeError(400, "DIGEST_INVALID")

----------------------------------------------------------------------------
(* PATCH racing the removal of its session.                                *)

\* The PATCH handlers that hold the lock and are about to assign the longer
\* slice to upload.Data; each of them goes on to answer 202.
Appending == {c \in Clients : req[c].op = "BlobUploadPatch" /\ req[c].pc = "store"}

\* C35: a PATCH appends its bytes, and then answers 202, only while its
\* session is in the session table: when a PUT or a DELETE has removed the
\* session, the PATCH does not append to it and acknowledge.
PatchAppendsToOpenSession ==
    [][\A c \in Appending : req'[c].pc = "unlock" => req[c].uuid \in uploads]_vars

\* What the handler does: the lookup was made under an earlier hold of the
\* lock, so a PATCH that appends found its session in the table at some
\* earlier time, and the session was created.
PatchAppendsToCreatedSession ==
    \A c \in Appending : req[c].uuid \in DOMAIN heap /\ mu = c

\* C35 witness: a PATCH that found its session holds the lock to append
\* after a DELETE has removed the session; no PUT has committed it.
PatchAppendsToOpenSessionWitness ==
    \E c \in Appending :
        LET u == req[c].uuid
        IN /\ mu = c
           /\ u \notin uploads
           /\ log[u].removed = 1
           /\ log[u].ok = 0 /\ log[u].failed = 0 /\ Committing(u) = {}

----------------------------------------------------------------------------
(* Bindings under a digest reference.                                      *)

\* The bindings of the index whose reference has digest form.
DigestBindings ==
    {<<n, r>> \in Repos \X References :
        /\ n \in DOMAIN manifests /\ r \in DOMAIN manifests[n]
        /\ HasPrefix(r, "sha256:")}

\* GET of the manifest of repository n under reference r.
GetByReference(n, r) ==
    handleManifestGet(Cur, [BaseReq EXCEPT !.op = "ManifestGet", !.method = "GET",
                                           !.name = n, !.ref = r])

\* C36: in every state, every binding of the index under a reference of
\* digest form maps to a record whose raw bytes hash to that reference, and a
\* GET by that digest returns 200 with that digest as Docker-Content-Digest.
DigestBindingsMatch ==
    \A b \in DigestBindings :
        /\ Digest(manifests[b[1]][b[2]].Raw) = b[2]
        /\ GetByReference(b[1], b[2]).resp.status = 200
        /\ GetByReference(b[1], b[2]).resp.digest = b[2]

\* What the handlers do guarantee: GET returns the bytes that are bound and
\* their digest, whatever the reference.
GetReturnsBoundBytes ==
    \A b \in DigestBindings :
        LET g == GetByReference(b[1], b[2]).resp
        IN /\ g.status = 200
           /\ g.body = manifests[b[1]][b[2]].Raw
           /\ g.digest = Digest(g.body)

\* C36 witness: a manifest was pushed to a reference of digest form, and a
\* GET by that digest returns a body with another digest.
DigestBindingsMatchWitness ==
    \E b \in DigestBindings :
        /\ GetByReference(b[1], b[2]).resp.status = 200
        /\ GetByReference(b[1], b[2]).resp.digest # b[2]

----------------------------------------------------------------------------
(* The catalog after the last binding of a repository is removed.          *)

\* The repositories that have at least one binding in the index.
Bound == {n \in DOMAIN manifests : DOMAIN manifests[n] # {}}

\* C37: in every state, GET /v2/_catalog lists only repositories that have
\* at least one manifest binding; a repository whose last binding a manifest
\* DELETE has removed is not listed.
CatalogListsBound ==
    \A q \in CatalogRequests : handleCatalog(Cur, q).resp.repositories \subseteq Bound

\* What the handler lists: every repository that has an entry in the index,
\* and every repository with a binding is among them.
CatalogListsEntries ==
    \A q \in CatalogRequests :
        /\ handleCatalog(Cur, q).resp.repositories = DOMAIN manifests
        /\ Bound \subseteq handleCatalog(Cur, q).resp.repositories

\* C37 witness: manifest DELETEs have removed every binding of a repository
\* that had some, and the catalog is asked for.
CatalogListsBoundWitness ==
    \E n \in DOMAIN manifests :
        /\ DOMAIN manifests[n] = {}
        /\ \E q \in CatalogRequests : handleCatalog(Cur, q).resp.status = 200

----------------------------------------------------------------------------
(* Registered registries and persisted descriptors.                        *)

\* The names a Manager of the process holds a registry for.
Registered(S) == DOMAIN S.registries \cup DOMAIN S.bootRegistries

\* The names of the docker descriptors in the bucket.
DockerDescriptors(S) == {n \in DOMAIN S.db : S.db[n].type = "docker"}

\* C38: in every state between two requests of the Control API, a registry
\* is registered in a Manager for a name only if a docker descriptor of that
\* name is persisted, whatever creates, rollbacks and deletes came before,
\* a delete whose registry stop fails included.
RegisteredHasDescriptor == Registered(Server) \subseteq DockerDescriptors(Server)

\* What the handlers do guarantee for the Manager of the API: a registry it
\* holds for a name without descriptor is one whose Stop has failed in a
\* DELETE, so its listener is closed.
OrphanIsShutDown ==
    \A n \in DOMAIN registries \ DockerDescriptors(Server) :
        inst[registries[n]].server = "shutdown"

\* C38 witness: a DELETE whose StopRegistry failed was answered 204; the
\* descriptor is gone and the registry is still in the Manager's map.
RegisteredHasDescriptorWitness ==
    /\ lastApi.op = "delete" /\ lastApi.status = 204
    /\ lastApi.name \notin DOMAIN db
    /\ lastApi.name \in DOMAIN registries
    /\ StopRegistry(ApiManager(Server), lastApi.name, "ok").err = ""

----------------------------------------------------------------------------
(* Registration and the listener of a registry.                            *)

\* The names registered in the Manager whose Registry.Start has returned an
\* error: the listener did not bind.
FailedRegistered(M) ==
    {n \in DOMAIN M.registries : M.inst[M.registries[n]].server = "failed"}

\* C39: in every state, no registry is registered in the Manager's map whose
\* background listener failed to bind; when the listener fails, StartRegistry
\* returns an error and no registered registry holds the port.
RegisteredHasStarted == FailedRegistered(Mgr) = {}

\* What StartRegistry does guarantee: when the goroutine's failure is on the
\* channel by the time of the select, it returns an error and registers
\* nothing.
EarlyFailureNotRegistered ==
    \A repo \in RepoNames, config \in Configs :
        LET h == StartRegistry(Mgr, repo, config, TRUE)
        IN h.err # "" /\ h.st.registries = registries

\* C39 witness: a StartRegistry returned nil and registered the registry, its
\* listener then failed to bind, and IsPortInUse reports the port as in use.
RegisteredHasStartedWitness ==
    \E n \in FailedRegistered(Mgr) :
        /\ GetRegistry(Mgr, n).exists
        /\ IsPortInUse(Mgr, ConfigOf(n).HTTPPort, ConfigOf(n).HTTPSPort)

----------------------------------------------------------------------------
(* The registries the boot path starts, as the Control API sees them.      *)

\* The names whose registry Server.Start has started and which listens.
BootRunning(S) ==
    {n \in DOMAIN S.bootRegistries : S.inst[S.bootRegistries[n]].server = "listening"}

\* The POSTs for a docker repository one of whose ports, after the defaults,
\* is the port a registry started by Server.Start listens on.
BootPortRequests(S) ==
    {q \in CreateRequests :
        /\ q.type = "docker"
        /\ \E n \in BootRunning(S) :
              Addr(S.inst[S.bootRegistries[n]])
                  \in {CreateConfig(q).HTTPPort, CreateConfig(q).HTTPSPort} \ {0}}

\* C40: while the server serves, the Manager the Control API consults holds
\* the registries the boot path has started: a POST whose port such a
\* registry listens on is answered 409, and a DELETE of such a repository
\* that is answered 204 leaves its registry stopped.
ApiSeesBootRegistries ==
    phase = "serving" =>
        /\ \A n \in DOMAIN bootRegistries :
              GetRegistry(ApiManager(Server), n)
                  = [registry |-> bootRegistries[n], exists |-> TRUE]
        /\ \A q \in BootPortRequests(Server), early \in BOOLEAN :
              CreateRepository(Server, q, early).resp.status = 409
        /\ \A n \in BootRunning(Server) \cap DOMAIN db :
              LET h == DeleteRepository(Server, n, "ok")
              IN h.resp.status = 204 => Stopped(h.st, n)

\* What the code does: the Manager of Server.New, which the API handler
\* holds, and the Manager of Server.Start share no Registry.
ManagersShareNothing ==
    {registries[n] : n \in DOMAIN registries}
        \cap {bootRegistries[n] : n \in DOMAIN bootRegistries} = {}

\* C40 witness: after a restart the boot path has a persisted repository's
\* registry listening again; a POST naming its port is not answered 409, and
\* the DELETE of the repository is answered 204 with the registry still
\* listening.
ApiSeesBootRegistriesWitness ==
    /\ Restarted
    /\ \E n \in BootRunning(Server) \cap DOMAIN db :
          LET h == DeleteRepository(Server, n, "ok")
          IN /\ h.resp.status = 204
             /\ n \in Running(h.st)
             /\ \E q \in BootPortRequests(Server) :
                   CreateRepository(Server, q, FALSE).resp.status # 409

============================================================================
